---------------------------- MODULE Spec2Model ----------------------------
(***************************************************************************)
(* A model of the prosim simulation and analysis engine: the workflow      *)
(* graph and its structural operations, the deterministic and Monte Carlo  *)
(* engines, bottleneck detection, sensitivity analysis, the intervention   *)
(* engine and the leverage ranker.                                         *)
(*                                                                         *)
(* Python floats are modelled as exact rationals <<n, d>> (d > 0, reduced);*)
(* IEEE rounding (relative error about 1e-16) is abstracted away.  Python  *)
(* objects live in a heap of graph values addressed by references, so that *)
(* copy.deepcopy and in-place mutation are distinguishable.                *)
(***************************************************************************)
EXTENDS Integers, Sequences, FiniteSets, TLC

\* ------------------------------------------------------------------------
\* Bounds of the model
\* ------------------------------------------------------------------------
MaxEdges == 4

\* ------------------------------------------------------------------------
\* Rational arithmetic (the model of Python float)
\* ------------------------------------------------------------------------
Abs(x) == IF x < 0 THEN -x ELSE x

RECURSIVE Gcd(_, _)
Gcd(a, b) == IF b = 0 THEN a ELSE Gcd(b, a % b)

\* float("inf") is <<1, 0>>, -inf is <<-1, 0>> and nan is <<0, 0>>
Inf == <<1, 0>>
NaN == <<0, 0>>

Rat(n, d) ==
    IF d = 0 THEN (IF n = 0 THEN NaN ELSE IF n > 0 THEN Inf ELSE <<-1, 0>>)
    ELSE IF n = 0 THEN <<0, 1>>
    ELSE LET g == Gcd(Abs(n), Abs(d))
             s == IF d < 0 THEN -1 ELSE 1
         IN  <<(s * n) \div g, (s * d) \div g>>

Zero == <<0, 1>>
One == <<1, 1>>
I2R(i) == <<i, 1>>

\* sums and products cancel common factors before multiplying
RAdd(a, b) ==
    IF a = NaN \/ b = NaN THEN NaN
    ELSE IF a[2] = 0 /\ b[2] = 0 THEN (IF a = b THEN a ELSE NaN)
    ELSE IF a[2] = 0 \/ b[2] = 0 THEN Rat(a[1] * b[2] + b[1] * a[2], 0)
    ELSE LET g == Gcd(a[2], b[2])
         IN  Rat(a[1] * (b[2] \div g) + b[1] * (a[2] \div g), (a[2] \div g) * b[2])
RNeg(a) == <<-a[1], a[2]>>
RSub(a, b) == RAdd(a, RNeg(b))
RMul(a, b) ==
    IF a[2] = 0 \/ b[2] = 0 \/ a[1] = 0 \/ b[1] = 0 THEN Rat(a[1] * b[1], a[2] * b[2])
    ELSE LET g1 == Gcd(Abs(a[1]), b[2])
             g2 == Gcd(Abs(b[1]), a[2])
         IN  Rat((a[1] \div g1) * (b[1] \div g2), (a[2] \div g2) * (b[2] \div g1))
\* a / b for b # 0 (Python raises ZeroDivisionError on b = 0)
RDiv(a, b) ==
    IF b[2] = 0 THEN (IF a[2] = 0 THEN NaN ELSE Zero)
    ELSE IF b[1] < 0 THEN RMul(a, <<-b[2], -b[1]>>)
    ELSE RMul(a, <<b[2], b[1]>>)
\* comparisons are false on nan, as in IEEE 754; finite values are compared
\* by integer part first, then by the reciprocals of the fractional parts
RECURSIVE FiniteLt(_, _)
FiniteLt(a, b) ==
    IF a[1] \div a[2] # b[1] \div b[2] THEN a[1] \div a[2] < b[1] \div b[2]
    ELSE IF b[1] % b[2] = 0 THEN FALSE
    ELSE IF a[1] % a[2] = 0 THEN TRUE
    ELSE FiniteLt(<<b[2], b[1] % b[2]>>, <<a[2], a[1] % a[2]>>)
RLt(a, b) ==
    /\ a # NaN
    /\ b # NaN
    /\ IF a[2] = 0 \/ b[2] = 0
       THEN (a = <<-1, 0>> /\ b # <<-1, 0>>) \/ (b = Inf /\ a # Inf)
       ELSE FiniteLt(a, b)
RLe(a, b) == a # NaN /\ b # NaN /\ ~RLt(b, a)
\* Python's max(a, b) returns a unless b > a; min(a, b) returns a unless b < a
RMax(a, b) == IF RLt(a, b) THEN b ELSE a
RMin(a, b) == IF RLt(b, a) THEN b ELSE a
RAbs(a) == <<Abs(a[1]), a[2]>>
\* int(x) for finite x: truncation toward zero
RInt(a) == IF a[1] >= 0 THEN a[1] \div a[2] ELSE -((-a[1]) \div a[2])

RECURSIVE RSumSeq(_)
\* the sum of a sequence, taken pairwise (halves summed, then added)
RSumSeq(s) ==
    IF s = <<>> THEN Zero
    ELSE IF Len(s) = 1 THEN s[1]
    ELSE RAdd(RSumSeq(SubSeq(s, 1, Len(s) \div 2)),
              RSumSeq(SubSeq(s, Len(s) \div 2 + 1, Len(s))))

\* The guard constant 1e-10 of the "x / max(y, 1e-10)" idiom.  Every
\* positive quantity of the model is far above it, so it only decides the
\* y = 0 case; it is scaled to 1e-6 to stay inside machine integers.
Epsilon == <<1, 1000000>>

RDivEps(x, y) == RDiv(x, RMax(y, Epsilon))

\* ------------------------------------------------------------------------
\* Generic helpers
\* ------------------------------------------------------------------------
\* Body applied to value: a local binding of a value that is computed once
Let(value, Body(_)) == Body(value)

Range(s) == {s[i] : i \in 1..Len(s)}

RECURSIVE SelectSeqIdx(_, _, _)
\* the indices i (ascending) of s with Test(s[i])
SelectSeqIdx(s, Test(_), i) ==
    IF i > Len(s) THEN <<>>
    ELSE IF Test(s[i]) THEN <<i>> \o SelectSeqIdx(s, Test, i + 1)
    ELSE SelectSeqIdx(s, Test, i + 1)

RECURSIVE Dedupe(_)
\* s without repeated elements, first occurrences kept in order
Dedupe(s) ==
    IF s = <<>> THEN <<>>
    ELSE Let(Dedupe(SubSeq(s, 1, Len(s) - 1)),
             LAMBDA r : IF s[Len(s)] \in Range(r) THEN r ELSE Append(r, s[Len(s)]))

IndexOf(s, x) == CHOOSE i \in 1..Len(s) : s[i] = x /\ \A j \in 1..(i - 1) : s[j] # x

\* ------------------------------------------------------------------------
\* graph/models.py: NodeType, EdgeType, NodeParams, Node, Edge, WorkflowGraph
\* ------------------------------------------------------------------------
\* Python None (an empty tuple, comparable with every rational)
None == <<>>

NodeType == {"start", "end", "human", "api", "async", "batch", "decision",
             "parallel_gateway", "wait"}

EdgeType == {"normal", "conditional", "default", "loop"}

\* NodeParams with the defaults of the Field declarations
NodeParams ==
    [exec_time_mean |-> One, exec_time_variance |-> <<1, 10>>,
     cost_per_transaction |-> Zero, error_rate |-> Zero, drop_off_rate |-> Zero,
     parallelization_factor |-> 1, queue_delay_mean |-> Zero,
     queue_delay_variance |-> Zero, capacity_per_hour |-> None,
     max_retries |-> 0, retry_delay |-> Zero]

Node(id, type, params) == [id |-> id, node_type |-> type, params |-> params]

Edge(s, t, type, prob) ==
    [source |-> s, target |-> t, edge_type |-> type, probability |-> prob]

WorkflowGraph(nodes, edges) == [nodes |-> nodes, edges |-> edges]

\* WorkflowGraph.get_node: the first node with this id (has_node: it is not None)
has_node(wf, node_id) == \E i \in 1..Len(wf.nodes) : wf.nodes[i].id = node_id

get_node(wf, node_id) ==
    wf.nodes[CHOOSE i \in 1..Len(wf.nodes) :
                /\ wf.nodes[i].id = node_id
                /\ \A j \in 1..(i - 1) : wf.nodes[j].id # node_id]

get_start_nodes(wf) == SelectSeq(wf.nodes, LAMBDA n : n.node_type = "start")

get_end_nodes(wf) == SelectSeq(wf.nodes, LAMBDA n : n.node_type = "end")

get_decision_nodes(wf) == SelectSeq(wf.nodes, LAMBDA n : n.node_type = "decision")

get_outgoing_edges(wf, node_id) == SelectSeq(wf.edges, LAMBDA e : e.source = node_id)

get_incoming_edges(wf, node_id) == SelectSeq(wf.edges, LAMBDA e : e.target = node_id)

node_ids(wf) == {wf.nodes[i].id : i \in 1..Len(wf.nodes)}

\* indices into wf.edges of the edges leaving node_id, in list order
OutgoingIdx(wf, node_id) ==
    SelectSeqIdx(wf.edges, LAMBDA e : e.source = node_id, 1)

\* ------------------------------------------------------------------------
\* graph/operations.py: build_nx_graph.  A networkx DiGraph keeps its nodes
\* and, per node, its successors in insertion order; adding a node or an
\* edge again keeps the first position.
\* ------------------------------------------------------------------------
RECURSIVE EdgeEndpoints(_)
EdgeEndpoints(edges) ==
    IF edges = <<>> THEN <<>>
    ELSE <<Head(edges).source, Head(edges).target>> \o EdgeEndpoints(Tail(edges))

build_nx_graph(wf) ==
    [nodes |-> Dedupe([i \in 1..Len(wf.nodes) |-> wf.nodes[i].id]
                      \o EdgeEndpoints(wf.edges)),
     edges |-> Dedupe([i \in 1..Len(wf.edges) |->
                          <<wf.edges[i].source, wf.edges[i].target>>])]

\* G.remove_edges_from(pairs): pairs not in G are ignored
RemoveEdges(G, pairs) ==
    [G EXCEPT !.edges = SelectSeq(G.edges, LAMBDA e : e \notin pairs)]

Successors(G, u) ==
    Let(SelectSeq(G.edges, LAMBDA e : e[1] = u),
        LAMBDA out : [i \in 1..Len(out) |-> out[i][2]])

InDegree(G, v) == Cardinality({i \in 1..Len(G.edges) : G.edges[i][2] = v})

\* the set of nodes reachable from u along one or more edges
RECURSIVE ReachFrom(_, _)
ReachFrom(G, S) ==
    Let(S \cup {G.edges[i][2] : i \in {j \in 1..Len(G.edges) : G.edges[j][1] \in S}},
        LAMBDA nxt : IF nxt = S THEN S ELSE ReachFrom(G, nxt))

Reachable(G, u) == ReachFrom(G, {G.edges[i][2] : i \in {j \in 1..Len(G.edges) : G.edges[j][1] = u}})

\* nx.is_directed_acyclic_graph
IsDag(G) == \A i \in 1..Len(G.nodes) : G.nodes[i] \notin Reachable(G, G.nodes[i])

\* an edge lies on a directed cycle iff its source is reachable from its target
OnCycle(G, e) == e[1] = e[2] \/ e[1] \in Reachable(G, e[2])


\* ------------------------------------------------------------------------
\* networkx as used by graph/operations.py.  nx.find_cycle runs a depth
\* first search from each node in node order, following successors in
\* insertion order, and returns the cycle closed by the first edge that
\* leads back to a node of the active path; that closing edge is cycle[-1].
\* ------------------------------------------------------------------------
RECURSIVE DfsFrom(_, _, _, _)
DfsFrom(G, stack, seen, explored) ==
    IF stack = <<>> THEN [found |-> FALSE, edge |-> <<>>, seen |-> seen]
    ELSE LET u == stack[Len(stack)][1]
             k == stack[Len(stack)][2]
             stack2 == [stack EXCEPT ![Len(stack)] = <<u, k + 1>>]
         IN  Let(Successors(G, u), LAMBDA succ :
             IF k > Len(succ)
             THEN DfsFrom(G, SubSeq(stack, 1, Len(stack) - 1), seen, explored)
             ELSE IF succ[k] \in explored THEN DfsFrom(G, stack2, seen, explored)
             ELSE IF \E i \in 1..Len(stack) : stack[i][1] = succ[k]
             THEN [found |-> TRUE, edge |-> <<u, succ[k]>>, seen |-> seen]
             ELSE IF succ[k] \in seen THEN DfsFrom(G, stack2, seen, explored)
             ELSE DfsFrom(G, Append(stack2, <<succ[k], 1>>), seen \cup {succ[k]}, explored))

RECURSIVE FindCycleFrom(_, _, _)
FindCycleFrom(G, i, explored) ==
    IF i > Len(G.nodes) THEN None
    ELSE IF G.nodes[i] \in explored THEN FindCycleFrom(G, i + 1, explored)
    ELSE Let(DfsFrom(G, <<<<G.nodes[i], 1>>>>, {G.nodes[i]}, explored),
             LAMBDA r : IF r.found THEN r.edge
                        ELSE FindCycleFrom(G, i + 1, explored \cup r.seen))

\* cycle[-1][:2] of nx.find_cycle(G), or None when G has no cycle
FindCycleLastEdge(G) == FindCycleFrom(G, 1, {})

\* nx.topological_sort: Kahn's algorithm by generations
RECURSIVE RelaxChildren(_, _, _)
\* pairs: the (node, child) edges leaving one generation, in order
RelaxChildren(pairs, indeg, zero) ==
    IF pairs = <<>> THEN [indeg |-> indeg, zero |-> zero]
    ELSE LET c == Head(pairs)[2]
             d == indeg[c] - 1
         IN  RelaxChildren(Tail(pairs), [indeg EXCEPT ![c] = d],
                           IF d = 0 THEN Append(zero, c) ELSE zero)

RECURSIVE OutPairs(_, _)
OutPairs(G, gen) ==
    IF gen = <<>> THEN <<>>
    ELSE SelectSeq(G.edges, LAMBDA e : e[1] = Head(gen)) \o OutPairs(G, Tail(gen))

RECURSIVE Generations(_, _, _)
Generations(G, indeg, zero) ==
    IF zero = <<>> THEN <<>>
    ELSE Let(RelaxChildren(OutPairs(G, zero), indeg, <<>>),
             LAMBDA r : zero \o Generations(G, r.indeg, r.zero))

\* the nodes in the order they were added
InsertionOrder(G) == G.nodes

TopologicalSort(G) ==
    Let([v \in Range(G.nodes) |-> InDegree(G, v)],
        LAMBDA indeg : Generations(G, indeg, SelectSeq(G.nodes, LAMBDA v : indeg[v] = 0)))

\* ------------------------------------------------------------------------
\* graph/operations.py: topological_execution_order
\* ------------------------------------------------------------------------
LoopEdgePairs(wf) ==
    {<<wf.edges[i].source, wf.edges[i].target>> :
        i \in {j \in 1..Len(wf.edges) : wf.edges[j].edge_type = "loop"}}

\* the first edge of the graph, on a cycle or not
FirstListedEdge(G) == G.edges[1]

\* the cycle-breaking rule: which edge of a cyclic graph is dropped
BrokenEdge(G) == FindCycleLastEdge(G)

RECURSIVE BreakCycles(_)
BreakCycles(G) ==
    IF IsDag(G) THEN G ELSE BreakCycles(RemoveEdges(G, {BrokenEdge(G)}))

\* G_acyclic of topological_execution_order
AcyclicGraph(wf) == BreakCycles(RemoveEdges(build_nx_graph(wf), LoopEdgePairs(wf)))

topological_execution_order(wf) == TopologicalSort(AcyclicGraph(wf))


\* ------------------------------------------------------------------------
\* graph/operations.py: normalize_decision_probabilities (mutates the edges
\* of the graph it is given; the value returned is the mutated graph)
\* ------------------------------------------------------------------------
Tolerance == <<1, 1000>>

RECURSIVE SumProb(_, _)
SumProb(edges, idx) ==
    IF idx = <<>> THEN Zero
    ELSE RAdd(edges[Head(idx)].probability, SumProb(edges, Tail(idx)))

\* every node, whatever its type
AllNodes(wf) == wf.nodes

\* which nodes normalize_decision_probabilities visits
NormalizedNodes(wf) == get_decision_nodes(wf)

\* the probability left as it was
Unscaled(p, total) == p

\* the probability written to an outgoing edge whose group sums to total > 0
Rescaled(p, total) == RDiv(p, total)

\* a loop body that rescales whenever the sum is not 1.0
RescaleAlways(wf, node_id) ==
    Let(OutgoingIdx(wf, node_id), LAMBDA idx :
    Let(SumProb(wf.edges, idx), LAMBDA total :
        IF idx = <<>> THEN wf
        ELSE [wf EXCEPT !.edges = [i \in 1..Len(wf.edges) |->
                 IF i \in Range(idx)
                 THEN [wf.edges[i] EXCEPT !.probability =
                          IF RLe(total, Zero) THEN Rat(1, Len(idx))
                          ELSE Rescaled(wf.edges[i].probability, total)]
                 ELSE wf.edges[i]]]))

NormalizeNode(wf, node_id) ==
    Let(OutgoingIdx(wf, node_id), LAMBDA idx :
    Let(SumProb(wf.edges, idx), LAMBDA total :
        IF idx = <<>> THEN wf
        ELSE IF RLe(total, Zero)
        THEN [wf EXCEPT !.edges = [i \in 1..Len(wf.edges) |->
                 IF i \in Range(idx)
                 THEN [wf.edges[i] EXCEPT !.probability = Rat(1, Len(idx))]
                 ELSE wf.edges[i]]]
        ELSE IF RLt(Tolerance, RAbs(RSub(total, One)))
        THEN [wf EXCEPT !.edges = [i \in 1..Len(wf.edges) |->
                 IF i \in Range(idx)
                 THEN [wf.edges[i] EXCEPT
                          !.probability = Rescaled(wf.edges[i].probability, total)]
                 ELSE wf.edges[i]]]
        ELSE wf))

RECURSIVE NormalizeAll(_, _)
NormalizeAll(wf, nodes) ==
    IF nodes = <<>> THEN wf
    ELSE NormalizeAll(NormalizeNode(wf, Head(nodes).id), Tail(nodes))

normalize_decision_probabilities(wf) == NormalizeAll(wf, NormalizedNodes(wf))

\* ------------------------------------------------------------------------
\* graph/operations.py: validate_graph.  An issue is <<kind, subject>>.
\* ------------------------------------------------------------------------
RECURSIVE EndpointIssues(_, _)
EndpointIssues(wf, edges) ==
    IF edges = <<>> THEN <<>>
    ELSE (IF Head(edges).source \notin node_ids(wf)
          THEN <<<<"edge_source_not_found", Head(edges).source>>>> ELSE <<>>)
         \o (IF Head(edges).target \notin node_ids(wf)
             THEN <<<<"edge_target_not_found", Head(edges).target>>>> ELSE <<>>)
         \o EndpointIssues(wf, Tail(edges))

ConnectedIds(wf) == Range(EdgeEndpoints(wf.edges))

RECURSIVE OrphanIssues(_, _)
OrphanIssues(wf, nodes) ==
    IF nodes = <<>> THEN <<>>
    ELSE (IF /\ Head(nodes).id \notin ConnectedIds(wf)
             /\ Head(nodes).node_type \notin {"start", "end"}
             /\ Len(wf.nodes) > 1
          THEN <<<<"orphaned", Head(nodes).id>>>> ELSE <<>>)
         \o OrphanIssues(wf, Tail(nodes))

ValidateTolerance == <<1, 100>>

RECURSIVE DecisionIssues(_, _)
DecisionIssues(wf, nodes) ==
    IF nodes = <<>> THEN <<>>
    ELSE Let(OutgoingIdx(wf, Head(nodes).id), LAMBDA idx :
             (IF /\ idx # <<>>
                 /\ RLt(ValidateTolerance, RAbs(RSub(SumProb(wf.edges, idx), One)))
              THEN <<<<"probabilities_sum", Head(nodes).id>>>> ELSE <<>>)
             \o DecisionIssues(wf, Tail(nodes)))

\* no self-loop reported
NoSelfLoopIssues(edges) == <<>>

RECURSIVE SelfLoopIssues(_)
SelfLoopIssues(edges) ==
    IF edges = <<>> THEN <<>>
    ELSE (IF Head(edges).source = Head(edges).target /\ Head(edges).edge_type # "loop"
          THEN <<<<"self_loop", Head(edges).source>>>> ELSE <<>>)
         \o SelfLoopIssues(Tail(edges))

RECURSIVE WeakReach(_, _)
WeakReach(G, S) ==
    Let(S \cup {G.edges[i][2] : i \in {j \in 1..Len(G.edges) : G.edges[j][1] \in S}}
          \cup {G.edges[i][1] : i \in {j \in 1..Len(G.edges) : G.edges[j][2] \in S}},
        LAMBDA nxt : IF nxt = S THEN S ELSE WeakReach(G, nxt))

\* nx.is_weakly_connected for a graph with at least one node
IsWeaklyConnected(G) == WeakReach(G, {G.nodes[1]}) = Range(G.nodes)

validate_graph(wf) ==
    (IF get_start_nodes(wf) = <<>> THEN <<<<"no_start", None>>>> ELSE <<>>)
    \o (IF get_end_nodes(wf) = <<>> THEN <<<<"no_end", None>>>> ELSE <<>>)
    \o EndpointIssues(wf, wf.edges)
    \o OrphanIssues(wf, wf.nodes)
    \o DecisionIssues(wf, get_decision_nodes(wf))
    \o SelfLoopIssues(wf.edges)
    \o (IF Len(wf.nodes) > 1 /\ ~IsWeaklyConnected(build_nx_graph(wf))
        THEN <<<<"not_weakly_connected", None>>>> ELSE <<>>)

\* ------------------------------------------------------------------------
\* graph/operations.py: get_all_paths (nx.all_simple_paths, depth first in
\* successor order; a path ends at its first arrival at the target)
\* ------------------------------------------------------------------------
RECURSIVE SimplePaths(_, _, _, _)
\* the simple paths extending `path` through the successors succ[k..]
SimplePaths(G, path, k, target) ==
    Let(Successors(G, path[Len(path)]), LAMBDA succ :
        IF k > Len(succ) THEN <<>>
        ELSE (IF succ[k] \in Range(path) THEN <<>>
              ELSE IF succ[k] = target THEN <<Append(path, succ[k])>>
              ELSE SimplePaths(G, Append(path, succ[k]), 1, target))
             \o SimplePaths(G, path, k + 1, target))

RECURSIVE PathsToEnds(_, _, _)
PathsToEnds(G, start, ends) ==
    IF ends = <<>> THEN <<>>
    ELSE SimplePaths(G, <<start.id>>, 1, Head(ends).id) \o PathsToEnds(G, start, Tail(ends))

RECURSIVE PathsFromStarts(_, _, _)
PathsFromStarts(G, starts, ends) ==
    IF starts = <<>> THEN <<>>
    ELSE PathsToEnds(G, Head(starts), ends) \o PathsFromStarts(G, Tail(starts), ends)

get_all_paths(wf) ==
    PathsFromStarts(build_nx_graph(wf), get_start_nodes(wf), get_end_nodes(wf))


\* ------------------------------------------------------------------------
\* simulation/results.py: SimulationConfig, NodeMetrics, SimulationResults
\* ------------------------------------------------------------------------
SimulationConfig(n, seed, volume) ==
    [num_transactions |-> n, seed |-> seed, volume_per_hour |-> volume]

\* NodeMetrics(node_id=...) with every other field at its default
NodeMetrics(node_id) ==
    [node_id |-> node_id, avg_time |-> Zero, p50_time |-> Zero, p95_time |-> Zero,
     p99_time |-> Zero, total_time_contribution |-> Zero, avg_cost |-> Zero,
     total_cost |-> Zero, transactions_processed |-> 0, transactions_errored |-> 0,
     transactions_dropped |-> 0, transactions_retried |-> 0, utilization |-> Zero,
     queue_time |-> Zero, bottleneck_score |-> Zero]

\* SimulationResults(config=...) with every other field at its default
SimulationResults(config) ==
    [config |-> config, total_transactions |-> 0, completed_transactions |-> 0,
     failed_transactions |-> 0, dropped_transactions |-> 0, avg_total_time |-> Zero,
     p50_total_time |-> Zero, p95_total_time |-> Zero, p99_total_time |-> Zero,
     min_total_time |-> Zero, max_total_time |-> Zero, avg_total_cost |-> Zero,
     total_cost |-> Zero, throughput_per_hour |-> Zero,
     max_throughput_per_hour |-> Zero, node_metrics |-> <<>>]

\* dict.get(key, default) on a dict modelled as a function
Get(d, k, default) == IF k \in DOMAIN d THEN d[k] ELSE default

Put(d, k, v) == [x \in (DOMAIN d) \cup {k} |-> IF x = k THEN v ELSE d[x]]

EmptyDict == [x \in {} |-> Zero]

\* ------------------------------------------------------------------------
\* simulation/bottleneck.py: compute_bottleneck_scores (the inline scorer)
\* ------------------------------------------------------------------------
SumField(nms, F(_)) == RSumSeq([i \in 1..Len(nms) |-> F(nms[i])])

compute_bottleneck_scores(node_metrics, avg_total_time) ==
    Let(SumField(node_metrics, LAMBDA nm : nm.total_time_contribution),
        LAMBDA total_time_contrib :
        [i \in 1..Len(node_metrics) |->
            [node_metrics[i] EXCEPT !.bottleneck_score =
                RAdd(RAdd(RMul(<<2, 5>>, RDivEps(node_metrics[i].total_time_contribution,
                                                total_time_contrib)),
                          RMul(<<3, 10>>, node_metrics[i].utilization)),
                     RMul(<<3, 10>>, RDivEps(node_metrics[i].queue_time, avg_total_time)))]])

\* ------------------------------------------------------------------------
\* simulation/deterministic.py: run_deterministic
\* ------------------------------------------------------------------------
RECURSIVE IncomingProb(_, _)
\* sum over the incoming edges of parent visit probability * edge probability
IncomingProb(incoming, visit_prob) ==
    IF incoming = <<>> THEN Zero
    ELSE RAdd(RMul(Get(visit_prob, Head(incoming).source, Zero), Head(incoming).probability),
              IncomingProb(Tail(incoming), visit_prob))

\* the visit probability given to one node
NodeVisitProb(wf, node, visit_prob) ==
    IF node.node_type = "start" THEN One
    ELSE IncomingProb(get_incoming_edges(wf, node.id), visit_prob)

RECURSIVE VisitProbs(_, _, _)
VisitProbs(wf, order, visit_prob) ==
    IF order = <<>> THEN visit_prob
    ELSE IF ~has_node(wf, Head(order)) THEN VisitProbs(wf, Tail(order), visit_prob)
    ELSE VisitProbs(wf, Tail(order),
                    Put(visit_prob, Head(order),
                        NodeVisitProb(wf, get_node(wf, Head(order)), visit_prob)))

RetryFactor(p) == RAdd(One, RMul(p.error_rate, I2R(p.max_retries)))

EffectiveTime(p) ==
    RDiv(RMul(RAdd(p.exec_time_mean, p.queue_delay_mean), RetryFactor(p)),
         I2R(IF p.parallelization_factor > 1 THEN p.parallelization_factor ELSE 1))

\* the share of the weighted sums one incoming edge adds: <<parent_completion * w, w>>
ParentWeight(e, visit_prob, arrival_time, metrics) ==
    IF e.source \in DOMAIN metrics
    THEN Let(RMul(Get(visit_prob, e.source, Zero), e.probability), LAMBDA w :
             <<RMul(RAdd(Get(arrival_time, e.source, Zero), metrics[e.source].avg_time), w), w>>)
    ELSE <<Zero, Zero>>

RECURSIVE WeightedParents(_, _, _, _, _)
\* <<weighted_sum, weight_sum>> over the incoming edges whose parent has metrics
WeightedParents(incoming, visit_prob, arrival_time, metrics, sums) ==
    IF incoming = <<>> THEN sums
    ELSE WeightedParents(Tail(incoming), visit_prob, arrival_time, metrics,
             Let(ParentWeight(Head(incoming), visit_prob, arrival_time, metrics),
                 LAMBDA pw : <<RAdd(sums[1], pw[1]), RAdd(sums[2], pw[2])>>))

ArrivalTime(wf, node, visit_prob, arrival_time, metrics) ==
    IF node.node_type = "start" THEN Zero
    ELSE Let(get_incoming_edges(wf, node.id), LAMBDA incoming :
             IF incoming # <<>>
             THEN Let(WeightedParents(incoming, visit_prob, arrival_time, metrics,
                                      <<Zero, Zero>>),
                      LAMBDA ws : RDivEps(ws[1], ws[2]))
             ELSE Zero)

Utilization(p, demand) ==
    IF p.capacity_per_hour # None /\ RLt(Zero, p.capacity_per_hour)
    THEN RMin(RDiv(demand, RMul(p.capacity_per_hour, I2R(p.parallelization_factor))), One)
    ELSE Zero

\* the NodeMetrics of one node, from its effective time and its transaction count
DetMetricsOf(node, config, vp, effective_time, node_cost, transactions_at_node) ==
    [node_id |-> node.id,
     avg_time |-> effective_time,
     p50_time |-> effective_time,
     p95_time |-> RMul(effective_time, <<13, 10>>),
     p99_time |-> RMul(effective_time, <<16, 10>>),
     total_time_contribution |-> RMul(effective_time, vp),
     avg_cost |-> node_cost,
     total_cost |-> RMul(node_cost, I2R(transactions_at_node)),
     transactions_processed |-> transactions_at_node,
     transactions_errored |-> RInt(RMul(I2R(transactions_at_node), node.params.error_rate)),
     transactions_dropped |-> RInt(RMul(I2R(transactions_at_node), node.params.drop_off_rate)),
     transactions_retried |->
         RInt(RMul(I2R(transactions_at_node), node.params.error_rate))
           * (IF node.params.max_retries < 1 THEN node.params.max_retries ELSE 1),
     utilization |-> Utilization(node.params, RMul(config.volume_per_hour, vp)),
     queue_time |-> node.params.queue_delay_mean,
     bottleneck_score |-> Zero]

DetNodeMetrics(node, config, vp) ==
    DetMetricsOf(node, config, vp, EffectiveTime(node.params),
                 RMul(node.params.cost_per_transaction, RetryFactor(node.params)),
                 RInt(RMul(I2R(config.num_transactions), vp)))

RECURSIVE DetPass(_, _, _, _, _)
\* the second loop over topo_order: [arrival_time, metrics, keys]
DetPass(wf, config, order, visit_prob, acc) ==
    IF order = <<>> THEN acc
    ELSE IF ~has_node(wf, Head(order)) THEN DetPass(wf, config, Tail(order), visit_prob, acc)
    ELSE Let(get_node(wf, Head(order)), LAMBDA node :
             DetPass(wf, config, Tail(order), visit_prob,
                     [arrival_time |->
                          Put(acc.arrival_time, node.id,
                              ArrivalTime(wf, node, visit_prob, acc.arrival_time, acc.metrics)),
                      metrics |->
                          Put(acc.metrics, node.id,
                              DetNodeMetrics(node, config, Get(visit_prob, node.id, Zero))),
                      keys |-> Append(acc.keys, node.id)]))

RECURSIVE RMaxSeq(_)
RMaxSeq(s) == IF Len(s) = 1 THEN s[1] ELSE RMax(Head(s), RMaxSeq(Tail(s)))

\* a throughput of one transaction per second when no time is taken
CappedThroughput(avg_total_time) ==
    IF RLt(Zero, avg_total_time) THEN RDiv(<<3600, 1>>, avg_total_time) ELSE <<3600, 1>>

\* 3600.0 / avg_total_time if avg_total_time > 0 else float("inf")
Throughput(avg_total_time) ==
    IF RLt(Zero, avg_total_time) THEN RDiv(<<3600, 1>>, avg_total_time) ELSE Inf

RECURSIVE CapBySingleWorker(_, _, _, _)
\* the cap of each node taken for one worker, whatever its parallelization
CapBySingleWorker(wf, keys, visit_prob, max_throughput) ==
    IF keys = <<>> THEN max_throughput
    ELSE LET p == get_node(wf, Head(keys)).params
             vp == Get(visit_prob, Head(keys), Zero)
         IN  CapBySingleWorker(wf, Tail(keys), visit_prob,
                 IF /\ p.capacity_per_hour # None /\ p.capacity_per_hour # Zero
                    /\ RLt(Zero, vp)
                 THEN RMin(max_throughput, RDiv(p.capacity_per_hour, vp))
                 ELSE max_throughput)

RECURSIVE CapThroughput(_, _, _, _)
\* max_throughput after the loop over the node metrics: a capacity of None
\* or of 0.0 is falsy and caps nothing
CapThroughput(wf, keys, visit_prob, max_throughput) ==
    IF keys = <<>> THEN max_throughput
    ELSE LET p == get_node(wf, Head(keys)).params
             vp == Get(visit_prob, Head(keys), Zero)
         IN  CapThroughput(wf, Tail(keys), visit_prob,
                 IF /\ p.capacity_per_hour # None /\ p.capacity_per_hour # Zero
                    /\ RLt(Zero, vp)
                 THEN RMin(max_throughput,
                           RDiv(RMul(p.capacity_per_hour, I2R(p.parallelization_factor)), vp))
                 ELSE max_throughput)

DetPercentiles(avg_total_time) ==
    [p50 |-> avg_total_time,
     p95 |-> RMul(avg_total_time, <<13, 10>>),
     p99 |-> RMul(avg_total_time, <<16, 10>>),
     min |-> RMul(avg_total_time, <<7, 10>>),
     max |-> RMul(avg_total_time, <<2, 1>>)]

\* max(end_times) if end_times else 0.0, over the end nodes that were reached
AvgTotalTime(wf, pass) ==
    Let(SelectSeq(get_end_nodes(wf),
                  LAMBDA n : n.id \in DOMAIN pass.arrival_time /\ n.id \in DOMAIN pass.metrics),
        LAMBDA ends :
        IF ends # <<>>
        THEN RMaxSeq([i \in 1..Len(ends) |->
                         RAdd(pass.arrival_time[ends[i].id], pass.metrics[ends[i].id].avg_time)])
        ELSE Zero)

EndVisitProb(wf, visit_prob) ==
    Let(get_end_nodes(wf), LAMBDA all_ends :
        RSumSeq([i \in 1..Len(all_ends) |-> Get(visit_prob, all_ends[i].id, Zero)]))

\* the SimulationResults assembled from the values of the two passes
DetResults(wf, config, visit_prob, keys, node_metrics_list, avg_total_time, avg_total_cost, throughput, pct) ==
    [config |-> config,
     total_transactions |-> config.num_transactions,
     completed_transactions |->
         RInt(RMul(I2R(config.num_transactions), EndVisitProb(wf, visit_prob))),
     failed_transactions |->
         RInt(SumField(node_metrics_list, LAMBDA nm : I2R(nm.transactions_errored))),
     dropped_transactions |->
         RInt(SumField(node_metrics_list, LAMBDA nm : I2R(nm.transactions_dropped))),
     avg_total_time |-> avg_total_time,
     p50_total_time |-> pct.p50,
     p95_total_time |-> pct.p95,
     p99_total_time |-> pct.p99,
     min_total_time |-> pct.min,
     max_total_time |-> pct.max,
     avg_total_cost |-> avg_total_cost,
     total_cost |-> RMul(avg_total_cost, I2R(config.num_transactions)),
     throughput_per_hour |-> throughput,
     max_throughput_per_hour |-> CapThroughput(wf, keys, visit_prob, throughput),
     node_metrics |-> compute_bottleneck_scores(node_metrics_list, avg_total_time),
     visit_prob |-> visit_prob]

\* the result carries visit_prob (a local of the function) beside its fields
run_deterministic(wf, config) ==
    Let(topological_execution_order(wf), LAMBDA topo_order :
    Let(VisitProbs(wf, topo_order, EmptyDict), LAMBDA visit_prob :
    Let(DetPass(wf, config, topo_order, visit_prob,
                [arrival_time |-> EmptyDict, metrics |-> EmptyDict, keys |-> <<>>]),
        LAMBDA pass :
    Let([i \in 1..Len(pass.keys) |-> pass.metrics[pass.keys[i]]], LAMBDA node_metrics_list :
    Let(AvgTotalTime(wf, pass), LAMBDA avg_total_time :
        DetResults(wf, config, visit_prob, pass.keys, node_metrics_list, avg_total_time,
                   SumField(node_metrics_list,
                            LAMBDA nm : RMul(nm.avg_cost, Get(visit_prob, nm.node_id, Zero))),
                   Throughput(avg_total_time),
                   DetPercentiles(avg_total_time)))))))

\* ------------------------------------------------------------------------
\* numpy.random.Generator, as a deterministic stream of draws from a state.
\* A generator built from an integer seed starts in a state fixed by the
\* seed; default_rng(None) takes its state from operating-system entropy.
\* ------------------------------------------------------------------------
RngModulus == 16

RngStates == 0..(RngModulus - 1)

\* how many distinct states operating-system entropy is taken to yield
MaxEntropy == 2

EntropyStates == 0..(MaxEntropy - 1)

\* a generator seeded from the operating system whatever the seed
EntropyOnly(seed) == EntropyStates

\* the states np.random.default_rng(seed) may start in; seed is None, or
\* <<n>> for the integer n
default_rng(seed) == IF seed = None THEN EntropyStates ELSE {seed[1] % RngModulus}

RngNext(s) == (5 * s + 3) % RngModulus

\* rng.random(): a value in [0, 1), and the state after the draw
RngRandom(s) == [value |-> Rat(RngNext(s), RngModulus), rng |-> RngNext(s)]

\* rng.normal(mean, std): mean plus a whole number of standard deviations
RngNormal(s, mean, std) ==
    [value |-> RAdd(mean, RMul(I2R((RngNext(s) % 5) - 2), std)), rng |-> RngNext(s)]

RECURSIVE CdfIndex(_, _, _, _)
CdfIndex(probs, u, i, acc) ==
    IF i >= Len(probs) THEN i
    ELSE IF RLt(u, RAdd(acc, probs[i])) THEN i
    ELSE CdfIndex(probs, u, i + 1, RAdd(acc, probs[i]))

\* rng.choice(len(probs), p=probs): the index (from 1) whose cumulative
\* probability first exceeds a uniform draw
RngChoice(s, probs) ==
    [value |-> CdfIndex(probs, Rat(RngNext(s), RngModulus), 1, Zero), rng |-> RngNext(s)]

ISqrt(n) == CHOOSE k \in 0..n : k * k <= n /\ n < (k + 1) * (k + 1)

\* x ** 0.5, exact on the squares the model's variances are
RSqrt(x) == <<ISqrt(x[1]), ISqrt(x[2])>>

\* ------------------------------------------------------------------------
\* numpy aggregates
\* ------------------------------------------------------------------------
RECURSIVE SortR(_)
\* np.sort(s) of finite values: the values below the first one, sorted, the
\* values equal to it, and the values above it, sorted
SortR(s) ==
    IF Len(s) <= 1 THEN s
    ELSE Let(s[1], LAMBDA pivot :
             SortR(SelectSeq(s, LAMBDA x : RLt(x, pivot)))
             \o SelectSeq(s, LAMBDA x : x = pivot)
             \o SortR(SelectSeq(s, LAMBDA x : RLt(pivot, x))))

\* linear interpolation between the closest ranks of the sorted array a
Interpolate(a, q, lo) ==
    IF lo + 1 >= Len(a) THEN a[Len(a)]
    ELSE RAdd(a[lo + 1], RMul(RSub(Rat((Len(a) - 1) * q, 100), I2R(lo)),
                              RSub(a[lo + 2], a[lo + 1])))

\* the interpolation applied to the array in the order given
PercentileUnsorted(arr, q) == Interpolate(arr, q, RInt(Rat((Len(arr) - 1) * q, 100)))

\* np.percentile(arr, q)
Percentile(arr, q) ==
    Let(SortR(arr), LAMBDA a : Interpolate(a, q, RInt(Rat((Len(a) - 1) * q, 100))))

Mean(arr) == RDiv(RSumSeq(arr), I2R(Len(arr)))

RECURSIVE RMinSeq(_)
RMinSeq(s) == IF Len(s) = 1 THEN s[1] ELSE RMin(Head(s), RMinSeq(Tail(s)))

\* ------------------------------------------------------------------------
\* simulation/montecarlo.py: run_monte_carlo
\* ------------------------------------------------------------------------
\* one truncated normal sample, or the mean when the variance is zero
SampleTime(rng, mean, variance) ==
    IF RLt(Zero, variance)
    THEN Let(RngNormal(rng, mean, RSqrt(variance)),
             LAMBDA d : [value |-> RMax(Zero, d.value), rng |-> d.rng])
    ELSE [value |-> mean, rng |-> rng]

\* one retry more than max_retries
OneMoreRetry(p) == p.max_retries + 1

\* how many retries an errored visit may take
RetryLimit(p) == p.max_retries

RECURSIVE RetryLoop(_, _, _, _)
\* for retry in range(max_retries): ... ; st = [rng, base, time, retries_used,
\* samples, draws]: samples lists the execution times the retries sampled,
\* draws their success draws
RetryLoop(p, retry, st, limit) ==
    IF retry >= limit THEN st
    ELSE Let(SampleTime(st.rng, p.exec_time_mean, p.exec_time_variance), LAMBDA t :
         Let(RngRandom(t.rng), LAMBDA u :
         Let([rng |-> u.rng,
              base |-> st.base,
              time |-> RAdd(RAdd(st.time, p.retry_delay), t.value),
              retries_used |-> st.retries_used + 1,
              samples |-> Append(st.samples, t.value),
              draws |-> Append(st.draws, u.value)],
             LAMBDA st2 : IF ~RLt(u.value, p.error_rate) THEN st2
                          ELSE RetryLoop(p, retry + 1, st2, limit))))

\* the drop-off check and the record of the visit; r = [rng, base, time,
\* retries_used, samples, draws]
VisitDrop(p, errored, r) ==
    Let(IF RLt(Zero, p.drop_off_rate) THEN RngRandom(r.rng)
        ELSE [value |-> One, rng |-> r.rng],
        LAMBDA d :
        [rng |-> d.rng,
         base |-> r.base,
         time |-> r.time,
         cost |-> RMul(p.cost_per_transaction, I2R(1 + r.retries_used)),
         errored |-> errored,
         retries_used |-> r.retries_used,
         samples |-> r.samples,
         draws |-> r.draws,
         dropped |-> RLt(Zero, p.drop_off_rate) /\ RLt(d.value, p.drop_off_rate)])

\* the error check and the retries, from the effective time sampled
VisitError(p, rng, effective_time) ==
    Let(IF RLt(Zero, p.error_rate) THEN RngRandom(rng) ELSE [value |-> One, rng |-> rng],
        LAMBDA err :
        IF RLt(Zero, p.error_rate) /\ RLt(err.value, p.error_rate)
        THEN VisitDrop(p, TRUE,
                       RetryLoop(p, 0, [rng |-> err.rng, base |-> effective_time,
                                        time |-> effective_time, retries_used |-> 0,
                                        samples |-> <<>>, draws |-> <<>>],
                                 RetryLimit(p)))
        ELSE VisitDrop(p, FALSE, [rng |-> err.rng, base |-> effective_time,
                                  time |-> effective_time, retries_used |-> 0,
                                  samples |-> <<>>, draws |-> <<>>]))

\* everything one visit of a node samples: [rng, base, time, cost, errored,
\* retries_used, samples, draws, dropped]
VisitNode(p, rng0) ==
    Let(SampleTime(rng0, p.exec_time_mean, p.exec_time_variance), LAMBDA e :
    Let(SampleTime(e.rng, p.queue_delay_mean, p.queue_delay_variance), LAMBDA q :
        VisitError(p, q.rng,
                   RDiv(RAdd(e.value, q.value),
                        I2R(IF p.parallelization_factor > 1
                            THEN p.parallelization_factor ELSE 1)))))

\* the first outgoing edge, whatever the type of the node
FirstEdgeOnly(node, edges, rng) == [target |-> edges[1].target, rng |-> rng]

\* the node after `node`, given its non-empty outgoing edges: [target, rng]
NextNode(node, edges, rng) ==
    IF node.node_type = "decision"
    THEN Let(RSumSeq([i \in 1..Len(edges) |-> edges[i].probability]), LAMBDA total :
             IF RLt(Zero, total)
             THEN Let(RngChoice(rng, [i \in 1..Len(edges) |->
                                         RDiv(edges[i].probability, total)]),
                      LAMBDA c : [target |-> edges[c.value].target, rng |-> c.rng])
             ELSE [target |-> edges[1].target, rng |-> rng])
    ELSE [target |-> edges[1].target, rng |-> rng]

\* a limit of eleven hops per node
ElevenPerNode(wf) == Len(wf.nodes) * 11

\* max_hops of one transaction
MaxHops(wf) == Len(wf.nodes) * 10

NodeAcc == [times |-> <<>>, costs |-> <<>>, visits |-> 0, errors |-> 0,
            drops |-> 0, retries |-> 0]

\* accumulators that count a visit only when no error fired
CountCleanVisits(a, v) ==
    [times |-> Append(a.times, v.time),
     costs |-> Append(a.costs, v.cost),
     visits |-> a.visits + (IF v.errored THEN 0 ELSE 1),
     errors |-> a.errors + (IF v.errored THEN 1 ELSE 0),
     drops |-> a.drops + (IF v.dropped THEN 1 ELSE 0),
     retries |-> a.retries + v.retries_used]

\* the accumulators of a node after one more visit v
Accumulate(a, v) ==
    [times |-> Append(a.times, v.time),
     costs |-> Append(a.costs, v.cost),
     visits |-> a.visits + 1,
     errors |-> a.errors + (IF v.errored THEN 1 ELSE 0),
     drops |-> a.drops + (IF v.dropped THEN 1 ELSE 0),
     retries |-> a.retries + v.retries_used]

\* what one pass of the loop body did at `node`
VisitRecord(node, v) ==
    [node_id |-> node.id, node_type |-> node.node_type, base |-> v.base,
     time |-> v.time, cost |-> v.cost, errored |-> v.errored,
     retries_used |-> v.retries_used, samples |-> v.samples, draws |-> v.draws,
     dropped |-> v.dropped]

\* the transaction after the visit v of `node`
Visited(st, node, v) ==
    [st EXCEPT !.rng = v.rng, !.hops = st.hops + 1,
               !.total_time = RAdd(st.total_time, v.time),
               !.total_cost = RAdd(st.total_cost, v.cost),
               !.acc = [st.acc EXCEPT ![node.id] = Accumulate(st.acc[node.id], v)],
               !.trace = Append(st.trace, VisitRecord(node, v))]

\* a loop body that looks at the end node before the drop-off
EndBeforeDrop(wf, st) ==
    Let(get_node(wf, st.current), LAMBDA node :
    Let(VisitNode(node.params, st.rng), LAMBDA v :
    Let(Visited(st, node, v), LAMBDA st2 :
    Let(get_outgoing_edges(wf, node.id), LAMBDA edges :
        IF node.node_type = "end" THEN [st2 EXCEPT !.completed = TRUE, !.done = TRUE]
        ELSE IF v.dropped THEN [st2 EXCEPT !.dropped = TRUE, !.done = TRUE]
        ELSE IF edges = <<>> THEN [st2 EXCEPT !.done = TRUE]
        ELSE Let(NextNode(node, edges, st2.rng), LAMBDA n :
                 [st2 EXCEPT !.current = n.target, !.rng = n.rng])))))

\* one pass of the while loop body, for a transaction at an existing node;
\* done is set where the code breaks out of the loop
Hop(wf, st) ==
    Let(get_node(wf, st.current), LAMBDA node :
    Let(VisitNode(node.params, st.rng), LAMBDA v :
    Let(Visited(st, node, v), LAMBDA st2 :
    Let(get_outgoing_edges(wf, node.id), LAMBDA edges :
        IF v.dropped THEN [st2 EXCEPT !.dropped = TRUE, !.done = TRUE]
        ELSE IF node.node_type = "end" THEN [st2 EXCEPT !.completed = TRUE, !.done = TRUE]
        ELSE IF edges = <<>> THEN [st2 EXCEPT !.done = TRUE]
        ELSE Let(NextNode(node, edges, st2.rng), LAMBDA n :
                 [st2 EXCEPT !.current = n.target, !.rng = n.rng])))))

RECURSIVE Walk(_, _)
\* the while loop of one transaction; st = [rng, current, hops, total_time,
\* total_cost, completed, dropped, done, acc, trace]; trace lists the visits
\* made, in order
Walk(wf, st) ==
    IF st.done \/ ~(st.hops < MaxHops(wf)) \/ ~has_node(wf, st.current) THEN st
    ELSE Walk(wf, Hop(wf, st))

RECURSIVE Transactions(_, _, _, _)
\* for i in range(num_tx): sim = [rng, acc, tx] with one tx record per transaction
Transactions(wf, start_id, i, sim) ==
    IF i = 0 THEN sim
    ELSE Let(Walk(wf, [rng |-> sim.rng, current |-> start_id, hops |-> 0,
                       total_time |-> Zero, total_cost |-> Zero,
                       completed |-> FALSE, dropped |-> FALSE, done |-> FALSE,
                       acc |-> sim.acc, trace |-> <<>>]),
             LAMBDA w :
             Transactions(wf, start_id, i - 1,
                 [rng |-> w.rng, acc |-> w.acc,
                  tx |-> Append(sim.tx, [time |-> w.total_time, cost |-> w.total_cost,
                                         completed |-> w.completed, dropped |-> w.dropped,
                                         hops |-> w.hops, trace |-> w.trace])]))

\* node_visits[nid] / max(num_tx, 1)
VisitShare(a, config) ==
    Rat(a.visits, IF config.num_transactions > 1 THEN config.num_transactions ELSE 1)

MCNodeMetrics(node, a, config) ==
    IF a.times # <<>>
    THEN Let(Mean(a.times), LAMBDA avg_t :
             [node_id |-> node.id,
              avg_time |-> avg_t,
              p50_time |-> Percentile(a.times, 50),
              p95_time |-> Percentile(a.times, 95),
              p99_time |-> Percentile(a.times, 99),
              total_time_contribution |-> RMul(avg_t, VisitShare(a, config)),
              avg_cost |-> Mean(a.costs),
              total_cost |-> RSumSeq(a.costs),
              transactions_processed |-> a.visits,
              transactions_errored |-> a.errors,
              transactions_dropped |-> a.drops,
              transactions_retried |-> a.retries,
              utilization |->
                  Utilization(node.params, RMul(config.volume_per_hour, VisitShare(a, config))),
              queue_time |-> node.params.queue_delay_mean,
              bottleneck_score |-> Zero])
    ELSE NodeMetrics(node.id)

\* the transactions the total-time and total-cost statistics are taken over
CompletedPool(tx) ==
    Let(SelectSeq(tx, LAMBDA t : t.completed),
        LAMBDA done : IF done # <<>> THEN done ELSE tx)

CompletedTimes(tx) ==
    Let(CompletedPool(tx), LAMBDA pool : [i \in 1..Len(pool) |-> pool[i].time])

CompletedCosts(tx) ==
    Let(CompletedPool(tx), LAMBDA pool : [i \in 1..Len(pool) |-> pool[i].cost])

MCPercentiles(completed_times) ==
    [p50 |-> Percentile(completed_times, 50),
     p95 |-> Percentile(completed_times, 95),
     p99 |-> Percentile(completed_times, 99),
     min |-> RMinSeq(completed_times),
     max |-> RMaxSeq(completed_times)]

\* the SimulationResults assembled from the simulated transactions; it also
\* carries the transactions themselves, each with the visits it made
MCResults(config, tx, node_metrics_list, completed_times, avg_total_time, throughput, ncompleted, pct) ==
    [config |-> config,
     total_transactions |-> config.num_transactions,
     completed_transactions |-> ncompleted,
     failed_transactions |->
         RInt(SumField(node_metrics_list, LAMBDA nm : I2R(nm.transactions_errored))),
     dropped_transactions |-> config.num_transactions - ncompleted,
     avg_total_time |-> avg_total_time,
     p50_total_time |-> pct.p50,
     p95_total_time |-> pct.p95,
     p99_total_time |-> pct.p99,
     min_total_time |-> pct.min,
     max_total_time |-> pct.max,
     avg_total_cost |-> Mean(CompletedCosts(tx)),
     total_cost |-> RSumSeq([i \in 1..Len(tx) |-> tx[i].cost]),
     throughput_per_hour |-> throughput,
     max_throughput_per_hour |-> throughput,
     node_metrics |-> compute_bottleneck_scores(node_metrics_list, avg_total_time),
     transactions |-> tx]

\* a run that reports only the nodes a transaction has visited
VisitedNodesOnly(wf, config, rng0) ==
    IF get_start_nodes(wf) = <<>> THEN SimulationResults(config)
    ELSE
    Let(Transactions(wf, get_start_nodes(wf)[1].id, config.num_transactions,
                     [rng |-> rng0, acc |-> [id \in node_ids(wf) |-> NodeAcc], tx |-> <<>>]),
        LAMBDA sim :
    Let(CompletedTimes(sim.tx), LAMBDA completed_times :
    Let(Mean(completed_times), LAMBDA avg_total_time :
    Let(SelectSeq(wf.nodes, LAMBDA n : sim.acc[n.id].times # <<>>), LAMBDA visited :
        MCResults(config, sim.tx,
                  [i \in 1..Len(visited) |->
                      MCNodeMetrics(visited[i], sim.acc[visited[i].id], config)],
                  completed_times, avg_total_time,
                  Throughput(avg_total_time),
                  Len(SelectSeq(sim.tx, LAMBDA t : t.completed)),
                  MCPercentiles(completed_times))))))

\* run_monte_carlo with its generator starting in state rng0
run_monte_carlo(wf, config, rng0) ==
    IF get_start_nodes(wf) = <<>> THEN SimulationResults(config)
    ELSE
    Let(Transactions(wf, get_start_nodes(wf)[1].id, config.num_transactions,
                     [rng |-> rng0, acc |-> [id \in node_ids(wf) |-> NodeAcc], tx |-> <<>>]),
        LAMBDA sim :
    Let(CompletedTimes(sim.tx), LAMBDA completed_times :
    Let(Mean(completed_times), LAMBDA avg_total_time :
        MCResults(config, sim.tx,
                  [i \in 1..Len(wf.nodes) |->
                      MCNodeMetrics(wf.nodes[i], sim.acc[wf.nodes[i].id], config)],
                  completed_times, avg_total_time,
                  Throughput(avg_total_time),
                  Len(SelectSeq(sim.tx, LAMBDA t : t.completed)),
                  MCPercentiles(completed_times)))))

\* ------------------------------------------------------------------------
\* Python built-ins: round(x, ndigits), list[:n], sorted(..., reverse=True)
\* ------------------------------------------------------------------------
RECURSIVE Digits(_, _, _, _)
\* long division: <<the first k decimal digits of r/d as a number, remainder>>
Digits(r, d, k, acc) ==
    IF k = 0 THEN <<acc, r>>
    ELSE Digits((r * 10) % d, d, k - 1, acc * 10 + ((r * 10) \div d))

RECURSIVE Pow10(_)
Pow10(k) == IF k = 0 THEN 1 ELSE 10 * Pow10(k - 1)

\* the rounded magnitude, from the digits kept and the remainder dropped
RoundUp(dg, d) ==
    IF 2 * dg[2] > d \/ (2 * dg[2] = d /\ dg[1] % 2 = 1) THEN dg[1] + 1 ELSE dg[1]

\* round(x, k): to k decimals, ties to even; inf and nan are returned as is
Round(x, k) ==
    IF x[2] = 0 THEN x
    ELSE Let(RoundUp(Digits(Abs(x[1]) % x[2], x[2], k, Abs(x[1]) \div x[2]), x[2]),
             LAMBDA m : Rat((IF x[1] < 0 THEN -m ELSE m), Pow10(k)))

\* s[:n]
Slice(s, n) ==
    IF n >= 0 THEN SubSeq(s, 1, IF n < Len(s) THEN n ELSE Len(s))
    ELSE SubSeq(s, 1, IF Len(s) + n > 0 THEN Len(s) + n ELSE 0)

RECURSIVE InsertDesc(_, _, _)
\* index x goes after every index whose key is >= its own (a stable sort)
InsertDesc(order, x, keys) ==
    IF order = <<>> THEN <<x>>
    ELSE IF RLt(keys[Head(order)], keys[x]) THEN <<x>> \o order
    ELSE <<Head(order)>> \o InsertDesc(Tail(order), x, keys)

RECURSIVE SortOrder(_, _)
\* the indices 1..n in the order list.sort(key=..., reverse=True) leaves them
SortOrder(keys, n) ==
    IF n = 0 THEN <<>> ELSE InsertDesc(SortOrder(keys, n - 1), n, keys)

\* list.sort(key=Key, reverse=True)
SortDesc(s, Key(_)) ==
    Let(SortOrder([i \in 1..Len(s) |-> Key(s[i])], Len(s)),
        LAMBDA order : [i \in 1..Len(s) |-> s[order[i]]])

\* ------------------------------------------------------------------------
\* simulation/bottleneck.py: detect_bottlenecks
\* ------------------------------------------------------------------------
\* max(components, key=components.get): the first component of greatest value
DominantReason(names, values) ==
    names[CHOOSE i \in 1..Len(values) :
             /\ \A j \in 1..Len(values) : RLe(values[j], values[i])
             /\ \A j \in 1..(i - 1) : RLt(values[j], values[i])]

BottleneckScore(time_pct, utilization, queue_pct, error_rate, cost_pct) ==
    RAdd(RAdd(RAdd(RAdd(RMul(<<35, 100>>, time_pct), RMul(<<25, 100>>, utilization)),
                   RMul(<<20, 100>>, queue_pct)),
              RMul(<<10, 100>>, error_rate)),
         RMul(<<10, 100>>, cost_pct))

BottleneckRecord(nm, time_pct, cost_pct, queue_pct, error_rate) ==
    [node_id |-> nm.node_id,
     score |-> Round(BottleneckScore(time_pct, nm.utilization, queue_pct,
                                     error_rate, cost_pct), 4),
     reason |-> DominantReason(
                    <<"High time contribution", "High utilization", "High queue delay",
                      "High error rate", "High cost">>,
                    <<time_pct, nm.utilization, queue_pct, error_rate, cost_pct>>),
     utilization |-> nm.utilization,
     avg_queue_time |-> nm.queue_time,
     time_contribution_pct |-> Round(RMul(time_pct, <<100, 1>>), 2)]

BottleneckInfo(nm, total_time_contrib, total_cost, max_queue) ==
    BottleneckRecord(nm,
        RDivEps(nm.total_time_contribution, total_time_contrib),
        RDivEps(nm.total_cost, total_cost),
        RDivEps(nm.queue_time, max_queue),
        Rat(nm.transactions_errored,
            IF nm.transactions_processed > 1 THEN nm.transactions_processed ELSE 1))

\* the list in the order the nodes were scored
Unranked(bottlenecks) == bottlenecks

\* the order the bottleneck list is returned in
RankBottlenecks(bottlenecks) == SortDesc(bottlenecks, LAMBDA b : b.score)

\* the nodes that get a score: those that processed a transaction
ScoredNodes(nms) == SelectSeq(nms, LAMBDA nm : nm.transactions_processed # 0)

\* the BottleneckInfo list before it is sorted
Bottlenecks(scored, total_time_contrib, total_cost, max_queue) ==
    [i \in 1..Len(scored) |->
        BottleneckInfo(scored[i], total_time_contrib, total_cost, max_queue)]

detect_bottlenecks(results, top_n) ==
    IF results.node_metrics = <<>> THEN <<>>
    ELSE Let(Bottlenecks(ScoredNodes(results.node_metrics),
                         SumField(results.node_metrics, LAMBDA nm : nm.total_time_contribution),
                         SumField(results.node_metrics, LAMBDA nm : nm.total_cost),
                         RMaxSeq([i \in 1..Len(results.node_metrics) |->
                                     results.node_metrics[i].queue_time])),
             LAMBDA bottlenecks : Slice(RankBottlenecks(bottlenecks), top_n))

\* ------------------------------------------------------------------------
\* Object references.  A heap is a sequence of WorkflowGraph values; a
\* reference is an index into it.
\* ------------------------------------------------------------------------
\* a second reference to the same object
Alias(h, ref) == [heap |-> h, ref |-> ref]

\* copy.deepcopy(heap[ref]): a fresh object with equal contents
deepcopy(h, ref) == [heap |-> Append(h, h[ref]), ref |-> Len(h) + 1]

\* the index of the node WorkflowGraph.get_node returns
NodeIndex(wf, node_id) ==
    CHOOSE i \in 1..Len(wf.nodes) :
        /\ wf.nodes[i].id = node_id
        /\ \A j \in 1..(i - 1) : wf.nodes[j].id # node_id

\* ------------------------------------------------------------------------
\* simulation/sensitivity.py: run_sensitivity_analysis
\* ------------------------------------------------------------------------
\* the parameters of time and cost only
TimeAndCostParams == <<"exec_time_mean", "cost_per_transaction">>

SENSITIVITY_PARAMS ==
    <<"exec_time_mean", "cost_per_transaction", "error_rate", "queue_delay_mean",
      "parallelization_factor">>

SYSTEM_METRICS == <<"avg_total_time", "avg_total_cost">>

\* setattr(node.params, param_name, new_value) on the object at c.ref
SetParam(c, node_id, param_name, new_value) ==
    [heap |-> IF has_node(c.heap[c.ref], node_id)
              THEN [c.heap EXCEPT
                       ![c.ref].nodes[NodeIndex(c.heap[c.ref], node_id)].params[param_name] =
                           new_value]
              ELSE c.heap,
     ref |-> c.ref]

\* the parameter changed on heap[ref] itself
PerturbInPlace(h, ref, node_id, param_name, new_value) ==
    SetParam([heap |-> h, ref |-> ref], node_id, param_name, new_value)

\* a copy of heap[ref] with one parameter changed: [heap, ref]
_perturb_workflow(h, ref, node_id, param_name, new_value) ==
    SetParam(deepcopy(h, ref), node_id, param_name, new_value)

\* the parameter lowered by perturbation_pct percent instead of raised
LoweredValue(param_name, baseline_value, perturbation_pct) ==
    IF param_name = "parallelization_factor" THEN baseline_value + 1
    ELSE RMul(baseline_value, RSub(One, RDiv(perturbation_pct, <<100, 1>>)))

\* baseline_value + 1 for the worker count, else baseline_value * (1 + pct / 100)
PerturbedValue(param_name, baseline_value, perturbation_pct) ==
    IF param_name = "parallelization_factor" THEN baseline_value + 1
    ELSE RMul(baseline_value, RAdd(One, RDiv(perturbation_pct, <<100, 1>>)))

\* the entry of one metric, from its absolute impact
EntryOf(node_id, param_name, baseline_value, perturbed_value, metric_name, baseline_metric, perturbed_metric, absolute_impact) ==
    [node_id |-> node_id, parameter |-> param_name,
     baseline_value |-> baseline_value, perturbed_value |-> perturbed_value,
     metric_name |-> metric_name, baseline_metric |-> baseline_metric,
     perturbed_metric |-> perturbed_metric,
     absolute_impact |-> Round(absolute_impact, 6),
     relative_impact_pct |->
         Round(RMul(RDivEps(absolute_impact, RAbs(baseline_metric)), <<100, 1>>), 4)]

SensitivityEntry(node_id, param_name, baseline_value, perturbed_value, metric_name, baseline_metric, perturbed_metric) ==
    EntryOf(node_id, param_name, baseline_value, perturbed_value, metric_name,
            baseline_metric, perturbed_metric, RSub(perturbed_metric, baseline_metric))

\* one (node, parameter) combination: perturb a copy, simulate it, record the
\* entries.  st = [heap, entries, perturbed, seen]: perturbed lists the graphs
\* as simulated, seen the caller's graph as it was after each simulation
SensitivityStep(st, config, baseline_results, node, param_name, baseline_value, perturbed_value) ==
    Let(_perturb_workflow(st.heap, 1, node.id, param_name, perturbed_value), LAMBDA pw :
    Let(run_deterministic(pw.heap[pw.ref], config), LAMBDA perturbed_results :
        [heap |-> pw.heap,
         entries |-> st.entries \o
             [m \in 1..Len(SYSTEM_METRICS) |->
                 SensitivityEntry(node.id, param_name, baseline_value, perturbed_value,
                                  SYSTEM_METRICS[m],
                                  baseline_results[SYSTEM_METRICS[m]],
                                  perturbed_results[SYSTEM_METRICS[m]])],
         perturbed |-> Append(st.perturbed, pw.heap[pw.ref]),
         seen |-> Append(st.seen, pw.heap[1])]))

RECURSIVE SensitivityLoop(_, _, _, _, _, _)
\* the loops over workflow.nodes (index i) and SENSITIVITY_PARAMS (index j)
SensitivityLoop(st, config, perturbation_pct, baseline_results, i, j) ==
    IF i > Len(st.heap[1].nodes) THEN st
    ELSE IF j > Len(SENSITIVITY_PARAMS)
         THEN SensitivityLoop(st, config, perturbation_pct, baseline_results, i + 1, 1)
    ELSE IF /\ SENSITIVITY_PARAMS[j] # "parallelization_factor"
            /\ st.heap[1].nodes[i].params[SENSITIVITY_PARAMS[j]] = Zero
         THEN SensitivityLoop(st, config, perturbation_pct, baseline_results, i, j + 1)
    ELSE SensitivityLoop(
             SensitivityStep(st, config, baseline_results, st.heap[1].nodes[i],
                 SENSITIVITY_PARAMS[j],
                 st.heap[1].nodes[i].params[SENSITIVITY_PARAMS[j]],
                 PerturbedValue(SENSITIVITY_PARAMS[j],
                                st.heap[1].nodes[i].params[SENSITIVITY_PARAMS[j]],
                                perturbation_pct)),
             config, perturbation_pct, baseline_results, i, j + 1)

\* [heap, report]: the heap the call leaves (the caller's graph, then the
\* copies made) and the SensitivityReport; the report also carries the
\* copies as they were simulated (perturbed) and the caller's graph as it
\* was after each simulation (seen)
run_sensitivity_analysis(h, config, perturbation_pct) ==
    Let(SensitivityLoop([heap |-> h, entries |-> <<>>, perturbed |-> <<>>, seen |-> <<>>],
                        config, perturbation_pct, run_deterministic(h[1], config), 1, 1),
        LAMBDA st :
        [heap |-> st.heap,
         report |-> [entries |-> st.entries, perturbation_pct |-> perturbation_pct,
                     perturbed |-> st.perturbed, seen |-> st.seen]])

\* ------------------------------------------------------------------------
\* intervention/models.py and intervention/engine.py
\* ------------------------------------------------------------------------
\* Intervention(node_id=...) with every other field at its default
Intervention(node_id) ==
    [node_id |-> node_id, time_reduction_pct |-> Zero, cost_reduction_pct |-> Zero,
     error_reduction_pct |-> Zero, capacity_increase_pct |-> Zero,
     parallelization_increase |-> 0, queue_reduction_pct |-> Zero,
     implementation_cost |-> Zero]

\* a factor that grows with the percentage: 1.0 + min(pct, 100.0) / 100.0
GrowthFactor(pct) == RAdd(One, RDiv(RMin(pct, <<100, 1>>), <<100, 1>>))

\* the factor without its bounds: 1.0 - pct / 100.0
UnclampedFactor(pct) == RSub(One, RDiv(pct, <<100, 1>>))

\* max(0.0, 1.0 - min(pct, 100.0) / 100.0)
ReductionFactor(pct) ==
    RMax(Zero, RSub(One, RDiv(RMin(pct, <<100, 1>>), <<100, 1>>)))

\* if iv.time_reduction_pct > 0
ApplyTime(p, iv) ==
    IF RLt(Zero, iv.time_reduction_pct)
    THEN Let(ReductionFactor(iv.time_reduction_pct), LAMBDA factor :
             [p EXCEPT !.exec_time_mean = RMul(@, factor),
                       !.exec_time_variance = RMul(@, RMul(factor, factor))])
    ELSE p

\* if iv.cost_reduction_pct > 0
ApplyCost(p, iv) ==
    IF RLt(Zero, iv.cost_reduction_pct)
    THEN [p EXCEPT !.cost_per_transaction = RMul(@, ReductionFactor(iv.cost_reduction_pct))]
    ELSE p

\* if iv.error_reduction_pct > 0
ApplyError(p, iv) ==
    IF RLt(Zero, iv.error_reduction_pct)
    THEN [p EXCEPT !.error_rate = RMul(@, ReductionFactor(iv.error_reduction_pct))]
    ELSE p

\* if iv.capacity_increase_pct > 0 and p.capacity_per_hour is not None
ApplyCapacity(p, iv) ==
    IF RLt(Zero, iv.capacity_increase_pct) /\ p.capacity_per_hour # None
    THEN [p EXCEPT !.capacity_per_hour =
                       RMul(@, RAdd(One, RDiv(iv.capacity_increase_pct, <<100, 1>>)))]
    ELSE p

\* if iv.parallelization_increase > 0
ApplyParallelization(p, iv) ==
    IF iv.parallelization_increase > 0
    THEN [p EXCEPT !.parallelization_factor = @ + iv.parallelization_increase]
    ELSE p

\* if iv.queue_reduction_pct > 0
ApplyQueue(p, iv) ==
    IF RLt(Zero, iv.queue_reduction_pct)
    THEN Let(ReductionFactor(iv.queue_reduction_pct), LAMBDA factor :
             [p EXCEPT !.queue_delay_mean = RMul(@, factor),
                       !.queue_delay_variance = RMul(@, RMul(factor, factor))])
    ELSE p

\* the parameters of the target node after the intervention
ApplyToParams(p, iv) ==
    ApplyQueue(ApplyParallelization(ApplyCapacity(ApplyError(ApplyCost(ApplyTime(p, iv),
        iv), iv), iv), iv), iv)

\* mutates heap[ref] in place
_apply_single(h, ref, iv) ==
    IF ~has_node(h[ref], iv.node_id) THEN h
    ELSE [h EXCEPT ![ref].nodes[NodeIndex(h[ref], iv.node_id)].params = ApplyToParams(@, iv)]

\* the first intervention of the list only
ApplyFirstOnly(h, ref, interventions) ==
    IF interventions = <<>> THEN h ELSE _apply_single(h, ref, Head(interventions))

RECURSIVE ApplyAll(_, _, _)
ApplyAll(h, ref, interventions) ==
    IF interventions = <<>> THEN h
    ELSE ApplyAll(_apply_single(h, ref, Head(interventions)), ref, Tail(interventions))

_pct_change(old, new, invert) ==
    IF RLt(RAbs(old), Epsilon) THEN Zero
    ELSE Let(RMul(RDiv(RSub(old, new), RAbs(old)), <<100, 1>>),
             LAMBDA change : IF invert THEN RSub(Zero, change) ELSE change)

DeltaOf(metric_name, bv, ov, abs_change) ==
    [metric_name |-> metric_name,
     baseline_value |-> Round(bv, 4),
     optimized_value |-> Round(ov, 4),
     absolute_change |-> Round(abs_change, 4),
     relative_change_pct |-> Round(RMul(RDivEps(abs_change, RAbs(bv)), <<100, 1>>), 2)]

MetricDelta(metric_name, bv, ov) == DeltaOf(metric_name, bv, ov, RSub(ov, bv))

_compute_deltas(baseline, optimized) ==
    << MetricDelta("Average Total Time (s)", baseline.avg_total_time, optimized.avg_total_time),
       MetricDelta("Average Total Cost", baseline.avg_total_cost, optimized.avg_total_cost),
       MetricDelta("Throughput (tx/hr)", baseline.throughput_per_hour,
                   optimized.throughput_per_hour),
       MetricDelta("Completed Transactions", I2R(baseline.completed_transactions),
                   I2R(optimized.completed_transactions)),
       MetricDelta("Failed Transactions", I2R(baseline.failed_transactions),
                   I2R(optimized.failed_transactions)),
       MetricDelta("Dropped Transactions", I2R(baseline.dropped_transactions),
                   I2R(optimized.dropped_transactions)) >>

hours_per_year == 8760

\* the ratio taken whatever the implementation cost
UnguardedRoi(annual_cost_savings, total_impl_cost) ==
    IF total_impl_cost = Zero THEN Rat(annual_cost_savings[1], 0)
    ELSE RDiv(annual_cost_savings, total_impl_cost)

\* annual_cost_savings / total_impl_cost if total_impl_cost > 0 else None
roi(annual_cost_savings, total_impl_cost) ==
    IF RLt(Zero, total_impl_cost) THEN RDiv(annual_cost_savings, total_impl_cost) ELSE None

\* total_impl_cost / (annual_cost_savings / 12) if annual_cost_savings > 0 else None
payback(total_impl_cost, annual_cost_savings) ==
    IF RLt(Zero, annual_cost_savings)
    THEN RDiv(total_impl_cost, RDiv(annual_cost_savings, <<12, 1>>))
    ELSE None

\* the InterventionComparison, from the optimized results and the two sums
Comparison(interventions, baseline_results, optimized_wf, optimized_results, total_impl_cost, annual_cost_savings) ==
    [interventions_applied |-> interventions,
     deltas |-> _compute_deltas(baseline_results, optimized_results),
     time_saved_pct |->
         Round(_pct_change(baseline_results.avg_total_time,
                           optimized_results.avg_total_time, FALSE), 2),
     cost_saved_pct |->
         Round(_pct_change(baseline_results.avg_total_cost,
                           optimized_results.avg_total_cost, FALSE), 2),
     throughput_increase_pct |->
         Round(_pct_change(baseline_results.throughput_per_hour,
                           optimized_results.throughput_per_hour, TRUE), 2),
     error_reduction_pct |->
         Round(_pct_change(I2R(baseline_results.failed_transactions),
                           I2R(optimized_results.failed_transactions), FALSE), 2),
     total_implementation_cost |-> total_impl_cost,
     annual_cost_savings |-> Round(annual_cost_savings, 2),
     roi_ratio |-> Let(roi(annual_cost_savings, total_impl_cost),
                       LAMBDA r : IF r # None THEN Round(r, 2) ELSE None),
     payback_months |-> Let(payback(total_impl_cost, annual_cost_savings),
                            LAMBDA pb : IF pb # None THEN Round(pb, 1) ELSE None),
     optimized_wf |-> optimized_wf,
     optimized_results |-> optimized_results]

\* [heap, comparison]: the heap the call leaves and the InterventionComparison
\* (which also carries optimized_wf, the graph the interventions were written
\* to, and optimized_results, the results of simulating it)
apply_interventions(h, interventions, baseline_results, config) ==
    Let(deepcopy(h, 1), LAMBDA c :
    Let(ApplyAll(c.heap, c.ref, interventions), LAMBDA h2 :
    Let(run_deterministic(h2[c.ref], config), LAMBDA optimized_results :
        [heap |-> h2,
         comparison |->
             Comparison(interventions, baseline_results, h2[c.ref], optimized_results,
                 RSumSeq([i \in 1..Len(interventions) |->
                             interventions[i].implementation_cost]),
                 RMul(RMul(RSub(baseline_results.avg_total_cost,
                                optimized_results.avg_total_cost),
                           config.volume_per_hour),
                      I2R(hours_per_year)))])))

\* ------------------------------------------------------------------------
\* parser/postprocess.py: _repair_connectivity
\* ------------------------------------------------------------------------
RECURSIVE ComponentsFrom(_, _, _)
\* nx.weakly_connected_components(G): one set per component, in the order of
\* the first node of each in G
ComponentsFrom(G, i, seen) ==
    IF i > Len(G.nodes) THEN <<>>
    ELSE IF G.nodes[i] \in seen THEN ComponentsFrom(G, i + 1, seen)
    ELSE Let(WeakReach(G, {G.nodes[i]}), LAMBDA comp :
             <<comp>> \o ComponentsFrom(G, i + 1, seen \cup comp))

weakly_connected_components(G) == ComponentsFrom(G, 1, {})

\* the orders a set may be iterated in (the order of a set of strings
\* depends on their hashes)
IterationOrders(S) ==
    {f \in [1..Cardinality(S) -> S] : \A a, b \in 1..Cardinality(S) : a # b => f[a] # f[b]}

\* next(iter(S)) for a non-empty set S iterated in the order ord
NextIter(ord, S) == ord[CHOOSE a \in 1..Len(ord) : ord[a] \in S /\ \A b \in 1..(a - 1) : ord[b] \notin S]

OutDegree(G, v) == Cardinality({i \in 1..Len(G.edges) : G.edges[i][1] = v})

\* the first node of the component without an incoming edge, the first node
\* of the component when there is none
ComponentEntry(G, comp, ord) ==
    Let({n \in comp : InDegree(G, n) = 0}, LAMBDA entries :
        IF entries # {} THEN NextIter(ord, entries) ELSE NextIter(ord, comp))

\* the first node of the component without an outgoing edge, the first node
\* of the component when there is none
ComponentExit(G, comp, ord) ==
    Let({n \in comp : OutDegree(G, n) = 0}, LAMBDA exits :
        IF exits # {} THEN NextIter(ord, exits) ELSE NextIter(ord, comp))

\* the last component that satisfies the test, the empty set without one
\* (the loop over the components overwrites its variable)
LastComponent(comps, start_ids, end_ids, has_start, has_end) ==
    Let(SelectSeq(comps, LAMBDA comp : /\ (start_ids \cap comp # {}) = has_start
                                       /\ (end_ids \cap comp # {}) = has_end),
        LAMBDA found : IF found = <<>> THEN {} ELSE found[Len(found)])

RECURSIVE ChainThroughOrphans(_, _, _, _, _)
\* the edges start_last -> orphans ... -> end_first
ChainThroughOrphans(G, prev, orphan_components, end_first, ord) ==
    IF orphan_components = <<>> THEN <<Edge(prev, end_first, "normal", One)>>
    ELSE <<Edge(prev, ComponentEntry(G, Head(orphan_components), ord), "normal", One)>>
         \o ChainThroughOrphans(G, ComponentExit(G, Head(orphan_components), ord),
                                Tail(orphan_components), end_first, ord)

\* the start and the end are in different components
ConnectStartToEnd(wf, G, start_component, end_component, orphan_components, ord) ==
    WorkflowGraph(wf.nodes,
        wf.edges \o ChainThroughOrphans(G, ComponentExit(G, start_component, ord),
                                        orphan_components,
                                        ComponentEntry(G, end_component, ord), ord))

\* the node the chain through the orphans leaves the main component from
BridgeFrom(wf, main_component, start_ids, end_node, ord) ==
    Let(SelectSeq(wf.edges, LAMBDA e : /\ e.target = end_node
                                       /\ e.source \in main_component
                                       /\ e.source \notin start_ids),
        LAMBDA into_end : IF into_end # <<>> THEN into_end[1].source
                          ELSE NextIter(ord, start_ids \cap main_component))

RECURSIVE BridgeOrphans(_, _, _, _, _)
\* the edges bridge_from -> o1 ... -> o2 ... -> end_node
BridgeOrphans(G, bridge_from, orphan_components, end_node, ord) ==
    IF orphan_components = <<>> THEN <<>>
    ELSE Let(ComponentExit(G, Head(orphan_components), ord), LAMBDA last_node :
             <<Edge(bridge_from, ComponentEntry(G, Head(orphan_components), ord), "normal", One),
               Edge(last_node,
                    IF Len(orphan_components) = 1 THEN end_node
                    ELSE ComponentEntry(G, orphan_components[2], ord),
                    "normal", One)>>
             \o BridgeOrphans(G, last_node, Tail(orphan_components), end_node, ord))

\* the orphans are chained in before the end node of the main component
InsertOrphans(wf, G, main_component, orphan_components, start_ids, end_ids, ord) ==
    Let(NextIter(ord, end_ids \cap main_component), LAMBDA end_node :
    Let(BridgeFrom(wf, main_component, start_ids, end_node, ord), LAMBDA bridge_from :
        WorkflowGraph(wf.nodes,
            SelectSeq(wf.edges, LAMBDA e : ~(e.source = bridge_from /\ e.target = end_node))
            \o BridgeOrphans(G, bridge_from, orphan_components, end_node, ord))))

\* the branches of _repair_connectivity on a graph that is not connected
RepairComponents(wf, G, comps, start_ids, end_ids, ord) ==
    Let(LastComponent(comps, start_ids, end_ids, TRUE, TRUE), LAMBDA main_component :
    Let(LastComponent(comps, start_ids, end_ids, TRUE, FALSE), LAMBDA start_component :
    Let(LastComponent(comps, start_ids, end_ids, FALSE, TRUE), LAMBDA end_component :
    Let(SelectSeq(comps, LAMBDA comp : start_ids \cap comp = {} /\ end_ids \cap comp = {}),
        LAMBDA orphan_components :
        IF main_component = {} /\ start_component # {} /\ end_component # {}
        THEN ConnectStartToEnd(wf, G, start_component, end_component, orphan_components, ord)
        ELSE IF main_component = {} \/ orphan_components = <<>> THEN wf
        ELSE InsertOrphans(wf, G, main_component, orphan_components, start_ids, end_ids,
                           ord)))))

\* _repair_connectivity on a graph of at least one node, its sets iterated in
\* the order ord
_repair_connectivity(wf, ord) ==
    Let(build_nx_graph(wf), LAMBDA G :
        IF IsWeaklyConnected(G) THEN wf
        ELSE RepairComponents(wf, G, weakly_connected_components(G),
                              {get_start_nodes(wf)[i].id : i \in 1..Len(get_start_nodes(wf))},
                              {get_end_nodes(wf)[i].id : i \in 1..Len(get_end_nodes(wf))},
                              ord))

\* ------------------------------------------------------------------------
\* parser/postprocess.py: postprocess_raw_workflow.  A raw node is
\* [id, node_type, exec_time_mean] (None: the key is absent), a raw edge is
\* [source, target, edge_type, probability]; the id 0 stands for a missing
\* or empty reference, and n + 10 for the id n in another spelling.
\* ------------------------------------------------------------------------
\* ids that differ in case or in "-" against "_" have one normal form
_normalize_id_for_match(s) == s % 10

\* <<the matching id>>, None without a match
_find_matching_node_id(candidate, ids, ord) ==
    IF candidate \in ids THEN <<candidate>>
    ELSE Let({nid \in ids : _normalize_id_for_match(nid) = _normalize_id_for_match(candidate)},
             LAMBDA matches : IF matches = {} THEN None ELSE <<NextIter(ord, matches)>>)

\* _find_matching_node_id(ref, node_ids) or ref
FixedRef(ref, ids, ord) ==
    Let(_find_matching_node_id(ref, ids, ord), LAMBDA found :
        IF found = None THEN ref ELSE found[1])

RECURSIVE ChainEdges(_, _, _)
ChainEdges(prev_id, process_nodes, end_id) ==
    IF process_nodes = <<>> THEN <<Edge(prev_id, end_id, "normal", One)>>
    ELSE <<Edge(prev_id, Head(process_nodes).id, "normal", One)>>
         \o ChainEdges(Head(process_nodes).id, Tail(process_nodes), end_id)

\* start -> process_1 -> ... -> process_n -> end
_infer_linear_chain(start_nodes, end_nodes, process_nodes) ==
    ChainEdges(start_nodes[1].id, process_nodes, end_nodes[1].id)

RECURSIVE RepairedEdges(_, _, _)
\* the raw edges with both references given and, once fixed, both found
RepairedEdges(ids, raw_edges, ord) ==
    IF raw_edges = <<>> THEN <<>>
    ELSE Let(Head(raw_edges), LAMBDA raw_edge :
             (IF raw_edge.source = 0 \/ raw_edge.target = 0 THEN <<>>
              ELSE Let(FixedRef(raw_edge.source, ids, ord), LAMBDA fixed_src :
                   Let(FixedRef(raw_edge.target, ids, ord), LAMBDA fixed_tgt :
                       IF fixed_src \in ids /\ fixed_tgt \in ids
                       THEN <<Edge(fixed_src, fixed_tgt, raw_edge.edge_type,
                                   raw_edge.probability)>>
                       ELSE <<>>)))
             \o RepairedEdges(ids, Tail(raw_edges), ord))

_repair_edges(nodes, raw_edges, ord) ==
    Let(SelectSeq(nodes, LAMBDA n : n.node_type = "start"), LAMBDA start_nodes :
    Let(SelectSeq(nodes, LAMBDA n : n.node_type = "end"), LAMBDA end_nodes :
    Let(SelectSeq(nodes, LAMBDA n : n.node_type \notin {"start", "end"}),
        LAMBDA process_nodes :
        IF raw_edges = <<>> /\ start_nodes # <<>> /\ end_nodes # <<>>
        THEN _infer_linear_chain(start_nodes, end_nodes, process_nodes)
        ELSE Let(RepairedEdges(Range([i \in 1..Len(nodes) |-> nodes[i].id]), raw_edges, ord),
                 LAMBDA repaired :
                 IF repaired = <<>> /\ start_nodes # <<>> /\ end_nodes # <<>>
                 THEN _infer_linear_chain(start_nodes, end_nodes, process_nodes)
                 ELSE repaired))))

_default_time(node_type) ==
    CASE node_type \in {"start", "end", "parallel_gateway"} -> Zero
      [] node_type = "human" -> <<300, 1>>
      [] node_type = "async" -> <<5, 1>>
      [] node_type = "batch" -> <<60, 1>>
      [] node_type = "decision" -> <<1, 10>>
      [] node_type = "wait" -> <<30, 1>>
      [] OTHER -> One

\* the Node of a raw node: the fields that are absent take their defaults
RawNode(raw_node) ==
    Node(raw_node.id, raw_node.node_type,
         [NodeParams EXCEPT !.exec_time_mean =
             IF raw_node.exec_time_mean = None THEN _default_time(raw_node.node_type)
             ELSE raw_node.exec_time_mean])

\* the issues that strict mode raises on
CriticalIssues(issues) ==
    SelectSeq(issues, LAMBDA i : i[1] \in {"no_start", "no_end", "orphaned",
                                           "not_weakly_connected"})

ValueError == [raises |-> "ValueError"]

\* postprocess_raw_workflow(raw, strict), its sets iterated in the order ord
postprocess_raw_workflow(raw, strict, ord) ==
    Let([i \in 1..Len(raw.nodes) |-> RawNode(raw.nodes[i])], LAMBDA nodes :
    Let(WorkflowGraph(nodes, _repair_edges(nodes, raw.edges, ord)), LAMBDA built :
    Let(_repair_connectivity(normalize_decision_probabilities(built), ord), LAMBDA wf :
        IF strict /\ CriticalIssues(validate_graph(wf)) # <<>> THEN ValueError ELSE wf)))

\* ------------------------------------------------------------------------
\* intervention/leverage.py: rank_leverage
\* ------------------------------------------------------------------------
\* the keys of impact_map, in insertion order
ImpactKeys(entries) ==
    Dedupe([i \in 1..Len(entries) |-> <<entries[i].node_id, entries[i].parameter>>])

RECURSIVE LastEntry(_, _, _, _)
\* the index of the last entry of `key` for one metric, 0 without one
LastEntry(entries, key, metric_name, i) ==
    IF i = 0 THEN 0
    ELSE IF /\ <<entries[i].node_id, entries[i].parameter>> = key
            /\ entries[i].metric_name = metric_name
         THEN i
    ELSE LastEntry(entries, key, metric_name, i - 1)

\* impact_map[key][...] for one metric: the last entry for it, 0.0 without one
Impact(entries, key, metric_name) ==
    Let(LastEntry(entries, key, metric_name, Len(entries)),
        LAMBDA i : IF i = 0 THEN Zero ELSE RAbs(entries[i].relative_impact_pct))

\* 0.6 * time_impact + 0.4 * cost_impact
LeverageScore(time_impact, cost_impact) ==
    RAdd(RMul(<<6, 10>>, time_impact), RMul(<<4, 10>>, cost_impact))

\* the composite scores before normalization, in impact_map order
RawScores(entries) ==
    Let(ImpactKeys(entries), LAMBDA keys :
        [i \in 1..Len(keys) |->
            LeverageScore(Impact(entries, keys[i], "avg_total_time"),
                          Impact(entries, keys[i], "avg_total_cost"))])

RECURSIVE MaxScore(_, _)
MaxScore(scores, max_score) ==
    IF scores = <<>> THEN max_score
    ELSE MaxScore(Tail(scores), RMax(max_score, Head(scores)))

\* the raw score
Unnormalized(score, max_score) == score

\* the normalization step: score / max_score rounded to 4 decimals
Normalized(score, max_score) ==
    IF RLt(Zero, max_score) THEN Round(RDiv(score, max_score), 4) ELSE score

_build_recommendation(param, time_impact, cost_impact) ==
    <<(CASE param = "exec_time_mean" -> "Reduce execution time"
         [] param = "cost_per_transaction" -> "Reduce per-transaction cost"
         [] param = "error_rate" -> "Reduce error rate"
         [] param = "queue_delay_mean" -> "Reduce queue delay"
         [] param = "parallelization_factor" -> "Add parallel workers"
         [] OTHER -> "Optimize"),
      (IF RLt(cost_impact, time_impact) THEN "on total time" ELSE "on total cost")>>

\* the order the ranking is returned in
RankOrder(rankings) == SortDesc(rankings, LAMBDA r : r.leverage_score)

\* one LeverageRanking, from its key, its raw score and its two impacts
Ranking(key, score, max_score, time_impact, cost_impact) ==
    [node_id |-> key[1],
     parameter |-> key[2],
     leverage_score |-> Normalized(score, max_score),
     time_impact_pct |-> Round(time_impact, 2),
     cost_impact_pct |-> Round(cost_impact, 2),
     recommendation |-> _build_recommendation(key[2], time_impact, cost_impact)]

Rankings(entries, keys, raw, max_score) ==
    [i \in 1..Len(keys) |->
        Ranking(keys[i], raw[i], max_score,
                Impact(entries, keys[i], "avg_total_time"),
                Impact(entries, keys[i], "avg_total_cost"))]

rank_leverage(wf, sensitivity, top_n) ==
    Let(RawScores(sensitivity.entries), LAMBDA raw :
    Let(Rankings(sensitivity.entries, ImpactKeys(sensitivity.entries), raw,
                 MaxScore(raw, Zero)),
        LAMBDA rankings : Slice(RankOrder(rankings), top_n)))

\* ------------------------------------------------------------------------
\* heap:   the WorkflowGraph objects alive, by reference; heap[1] is the
\*         caller's graph
\* config: the caller's SimulationConfig
\* call:   the operation that ran last ("load" after construction)
\* arg:    the argument it was given besides the graph and the config
\* result: what that operation returned
\* prev:   the call, the result and the caller's graph before it
VARIABLES heap, config, call, arg, result, prev

vars == <<heap, config, call, arg, result, prev>>

workflow == heap[1]

\* the caller keeps its graph; the copies an earlier call made are garbage
Collected == <<heap[1]>>

Remember == [call |-> call, result |-> result, workflow |-> heap[1]]

\* ------------------------------------------------------------------------
\* Inputs: the graphs and configurations the operations are applied to
\* ------------------------------------------------------------------------
\* nodes with no time, cost or failure (the start and end nodes of the fixtures)
InstantParams ==
    [NodeParams EXCEPT !.exec_time_mean = Zero, !.exec_time_variance = Zero]

\* the parameter bundles given to the middle node
Profiles ==
    { [NodeParams EXCEPT !.exec_time_mean = <<2, 1>>, !.exec_time_variance = Zero],
      [NodeParams EXCEPT !.exec_time_mean = <<2, 1>>, !.exec_time_variance = One,
                         !.cost_per_transaction = <<1, 2>>, !.error_rate = <<1, 2>>,
                         !.max_retries = 2, !.retry_delay = One],
      [NodeParams EXCEPT !.exec_time_mean = <<4, 1>>, !.exec_time_variance = Zero,
                         !.cost_per_transaction = One, !.drop_off_rate = <<1, 2>>,
                         !.queue_delay_mean = <<3, 1>>, !.queue_delay_variance = One,
                         !.capacity_per_hour = <<50, 1>>, !.parallelization_factor = 2] }

\* the node types of nodes 1, 2 and 3
KindChoices ==
    { <<"start", "api", "end">>, <<"start", "decision", "end">>,
      <<"start", "parallel_gateway", "api">>, <<"api", "decision", "end">> }

\* the edges a graph may hold, in list order
EdgeSlots ==
    << Edge(1, 2, "normal", One),
       Edge(1, 3, "normal", One),
       Edge(2, 3, "conditional", <<1, 2>>),
       Edge(2, 1, "loop", <<2, 5>>) >>

RECURSIVE Pick(_, _)
\* the subsequence of s at the index set I
Pick(s, I) ==
    IF s = <<>> THEN <<>>
    ELSE LET r == Pick(SubSeq(s, 1, Len(s) - 1), I)
         IN  IF Len(s) \in I THEN Append(r, s[Len(s)]) ELSE r

\* the sublists of slots of at most MaxEdges edges
EdgeLists(slots) ==
    {Pick(slots, I) : I \in {J \in SUBSET (1..Len(slots)) : Cardinality(J) <= MaxEdges}}

Workflows ==
    {WorkflowGraph(<<Node(1, k[1], InstantParams), Node(2, k[2], p), Node(3, k[3], InstantParams)>>, es) :
        k \in KindChoices, p \in Profiles, es \in EdgeLists(EdgeSlots)}

MaxTransactions == 2

Seeds == {None, <<7>>}

Configs ==
    {SimulationConfig(n, seed, <<100, 1>>) : n \in 1..MaxTransactions, seed \in Seeds}

\* perturbation_pct as the callers pass it (the API accepts 0.1 to 100)
Perturbations == {<<10, 1>>}

MaxTopN == 3

TopNs == 0..MaxTopN

MaxInterventions == 2

InterventionChoices ==
    { [Intervention(2) EXCEPT !.time_reduction_pct = <<50, 1>>,
                              !.error_reduction_pct = <<50, 1>>,
                              !.implementation_cost = <<1000, 1>>],
      [Intervention(2) EXCEPT !.cost_reduction_pct = <<150, 1>>,
                              !.queue_reduction_pct = <<-10, 1>>,
                              !.capacity_increase_pct = <<100, 1>>,
                              !.parallelization_increase = 1],
      [Intervention(9) EXCEPT !.time_reduction_pct = <<50, 1>>],
      [Intervention(2) EXCEPT !.implementation_cost = <<500, 1>>],
      [Intervention(2) EXCEPT !.time_reduction_pct = <<20, 1>>,
                              !.cost_reduction_pct = <<25, 1>>,
                              !.parallelization_increase = 2] }

InterventionLists ==
    UNION {[1..n -> InterventionChoices] : n \in 0..MaxInterventions}

\* ------------------------------------------------------------------------
\* Inputs of the structural operations: graphs with cycles of edges that are
\* not loop-typed, self-loops, an ordinary edge beside a loop-typed one,
\* branches that re-converge, two start nodes, and decision nodes whose
\* outgoing probabilities are all zero, sum below 1, or sum above 1
\* ------------------------------------------------------------------------
PlainParams == [NodeParams EXCEPT !.exec_time_mean = <<2, 1>>, !.exec_time_variance = Zero]

GraphKinds ==
    { <<"start", "api", "end">>, <<"start", "decision", "end">>,
      <<"start", "decision", "decision">>, <<"start", "start", "end">>,
      <<"decision", "decision", "end">> }

\* how the probabilities of the edges leaving nodes 2 and 3 are chosen
Mixes == {"zero", "low", "high", "near"}

\* the probability of an edge of weight w under a mix
Mixed(mix, w) ==
    CASE mix = "zero" -> Zero
      [] mix = "low" -> w
      [] mix = "high" -> RMul(<<2, 1>>, w)
      [] mix = "near" -> IF w = <<1, 2>> THEN <<1999, 2000>> ELSE Zero

GraphSlots(mix) ==
    << Edge(1, 2, "normal", One),
       Edge(1, 3, "normal", One),
       Edge(2, 3, "conditional", Mixed(mix, <<1, 2>>)),
       Edge(2, 1, "loop", Mixed(mix, <<2, 5>>)),
       Edge(3, 2, "normal", Mixed(mix, <<1, 2>>)),
       Edge(2, 2, "normal", Mixed(mix, <<1, 4>>)),
       Edge(2, 1, "normal", Mixed(mix, <<1, 5>>)),
       Edge(3, 3, "loop", Mixed(mix, <<1, 4>>)) >>

GraphWorkflows ==
    {WorkflowGraph(<<Node(1, k[1], InstantParams), Node(2, k[2], PlainParams),
                     Node(3, k[3], InstantParams)>>, es) :
        k \in GraphKinds, es \in UNION {EdgeLists(GraphSlots(mix)) : mix \in Mixes}}

InitGraph ==
    /\ \E wf \in GraphWorkflows : heap = <<wf>>
    /\ config = SimulationConfig(1, <<7>>, <<100, 1>>)
    /\ call = "load"
    /\ arg = None
    /\ result = None
    /\ prev = None

\* ------------------------------------------------------------------------
\* Inputs of rank_leverage through the API: SensitivityReports a client
\* sends, with repeated (node, parameter, metric) records, records of one
\* metric only, zero and negative impacts
\* ------------------------------------------------------------------------
MaxEntries == 3

\* SensitivityEntry(...) with the fields rank_leverage does not read at zero
ClientEntry(node_id, parameter, metric_name, relative_impact_pct) ==
    [node_id |-> node_id, parameter |-> parameter,
     baseline_value |-> Zero, perturbed_value |-> Zero,
     metric_name |-> metric_name, baseline_metric |-> Zero,
     perturbed_metric |-> Zero, absolute_impact |-> Zero,
     relative_impact_pct |-> relative_impact_pct]

ClientEntries ==
    { ClientEntry(1, "exec_time_mean", "avg_total_time", <<10, 1>>),
      ClientEntry(1, "exec_time_mean", "avg_total_cost", <<-5, 2>>),
      ClientEntry(1, "exec_time_mean", "avg_total_time", Zero),
      ClientEntry(2, "error_rate", "avg_total_time", <<-1, 3>>),
      ClientEntry(2, "error_rate", "avg_total_cost", Zero),
      ClientEntry(2, "error_rate", "p95_total_time", <<40, 1>>),
      ClientEntry(3, "cost_per_transaction", "avg_total_cost", <<10, 1>>) }

ClientReports ==
    {[entries |-> es, perturbation_pct |-> <<10, 1>>] :
        es \in UNION {[1..n -> ClientEntries] : n \in 0..MaxEntries}}

InitRank ==
    /\ heap = <<WorkflowGraph(<<Node(1, "start", InstantParams), Node(2, "api", PlainParams),
                               Node(3, "end", InstantParams)>>,
                             <<Edge(1, 2, "normal", One), Edge(2, 3, "normal", One)>>)>>
    /\ config = SimulationConfig(1, <<7>>, <<100, 1>>)
    /\ call = "receive_report"
    /\ arg = None
    /\ result \in ClientReports
    /\ prev = None

Init ==
    /\ \E wf \in Workflows : heap = <<wf>>
    /\ config \in Configs
    /\ call = "load"
    /\ arg = None
    /\ result = None
    /\ prev = None

\* an entry point is invoked on the graph as loaded
Fresh == call = "load"

\* ------------------------------------------------------------------------
\* Operations
\* ------------------------------------------------------------------------
ValidateGraph ==
    /\ Fresh
    /\ call' = "validate_graph"
    /\ arg' = None
    /\ result' = validate_graph(workflow)
    /\ heap' = Collected
    /\ prev' = Remember
    /\ UNCHANGED config

NormalizeDecisionProbabilities ==
    /\ Fresh
    /\ call' = "normalize_decision_probabilities"
    /\ arg' = None
    /\ heap' = <<normalize_decision_probabilities(workflow)>>
    /\ result' = None
    /\ prev' = Remember
    /\ UNCHANGED config

TopologicalExecutionOrder ==
    /\ Fresh
    /\ call' = "topological_execution_order"
    /\ arg' = None
    /\ result' = topological_execution_order(workflow)
    /\ heap' = Collected
    /\ prev' = Remember
    /\ UNCHANGED config

GetAllPaths ==
    /\ Fresh
    /\ call' = "get_all_paths"
    /\ arg' = None
    /\ result' = get_all_paths(workflow)
    /\ heap' = Collected
    /\ prev' = Remember
    /\ UNCHANGED config

RunDeterministic ==
    /\ Fresh
    /\ call' = "run_deterministic"
    /\ arg' = None
    /\ result' = run_deterministic(workflow, config)
    /\ heap' = Collected
    /\ prev' = Remember
    /\ UNCHANGED config

\* the first run on a graph, or one repeat of the run just made
RunMonteCarlo ==
    /\ Fresh \/ (call = "run_monte_carlo" /\ prev.call # "run_monte_carlo")
    /\ \E rng \in default_rng(config.seed) :
          result' = run_monte_carlo(workflow, config, rng)
    /\ call' = "run_monte_carlo"
    /\ arg' = None
    /\ heap' = Collected
    /\ prev' = Remember
    /\ UNCHANGED config

\* results.bottlenecks = detect_bottlenecks(results), on the results of a run
DetectBottlenecks ==
    /\ call \in {"run_deterministic", "run_monte_carlo"}
    /\ prev.call # "run_monte_carlo"
    /\ \E top_n \in TopNs :
          /\ arg' = <<top_n>>
          /\ result' = detect_bottlenecks(result, top_n)
    /\ call' = "detect_bottlenecks"
    /\ heap' = Collected
    /\ prev' = Remember
    /\ UNCHANGED config

RunSensitivityAnalysis ==
    /\ Fresh
    /\ \E pct \in Perturbations :
          \E r \in {run_sensitivity_analysis(heap, config, pct)} :
              /\ arg' = pct
              /\ heap' = r.heap
              /\ result' = r.report
    /\ call' = "run_sensitivity_analysis"
    /\ prev' = Remember
    /\ UNCHANGED config

\* rank_leverage(workflow, report, top_n), on the report of a sensitivity
\* analysis or on one a client sent
RankLeverage ==
    /\ call \in {"run_sensitivity_analysis", "receive_report"}
    /\ \E top_n \in TopNs :
          /\ arg' = <<top_n>>
          /\ result' = rank_leverage(workflow, result, top_n)
    /\ call' = "rank_leverage"
    /\ heap' = Collected
    /\ prev' = Remember
    /\ UNCHANGED config

\* apply_interventions(workflow, interventions, baseline, config), the
\* baseline being the deterministic results just computed
ApplyInterventions ==
    /\ call = "run_deterministic"
    /\ \E interventions \in InterventionLists :
          \E r \in {apply_interventions(heap, interventions, result, config)} :
              /\ arg' = interventions
              /\ heap' = r.heap
              /\ result' = r.comparison
    /\ call' = "apply_interventions"
    /\ prev' = Remember
    /\ UNCHANGED config

Next ==
    \/ ValidateGraph
    \/ NormalizeDecisionProbabilities
    \/ TopologicalExecutionOrder
    \/ GetAllPaths
    \/ RunDeterministic
    \/ RunMonteCarlo
    \/ DetectBottlenecks
    \/ RunSensitivityAnalysis
    \/ RankLeverage
    \/ ApplyInterventions

Spec == Init /\ [][Next]_vars

\* the structural operations and the deterministic engine on the graphs of
\* GraphWorkflows
NextGraph ==
    \/ ValidateGraph
    \/ NormalizeDecisionProbabilities
    \/ TopologicalExecutionOrder
    \/ GetAllPaths
    \/ RunDeterministic

SpecGraph == InitGraph /\ [][NextGraph]_vars

\* rank_leverage on the reports of ClientReports
NextRank == RankLeverage

SpecRank == InitRank /\ [][NextRank]_vars

\* ------------------------------------------------------------------------
\* Inputs of apply_interventions: graphs whose middle node may cost nothing
\* and take no time, and whose edge into the end node may have probability
\* zero, a half or one
\* ------------------------------------------------------------------------
PlanProfiles ==
    Profiles \cup {InstantParams,
                   [NodeParams EXCEPT !.exec_time_mean = <<2, 1>>, !.capacity_per_hour = Zero]}

PlanKinds == { <<"start", "api", "end">>, <<"start", "decision", "end">> }

PlanSlots ==
    << Edge(1, 2, "normal", One),
       Edge(1, 3, "normal", One),
       Edge(2, 3, "conditional", <<1, 2>>),
       Edge(2, 3, "normal", Zero),
       Edge(2, 1, "loop", <<2, 5>>) >>

PlanWorkflows ==
    {WorkflowGraph(<<Node(1, k[1], InstantParams), Node(2, k[2], p), Node(3, k[3], InstantParams)>>, es) :
        k \in PlanKinds, p \in PlanProfiles, es \in EdgeLists(PlanSlots)}

InitPlan ==
    /\ \E wf \in PlanWorkflows : heap = <<wf>>
    /\ \E n \in 1..MaxTransactions : config = SimulationConfig(n, <<7>>, <<100, 1>>)
    /\ call = "load"
    /\ arg = None
    /\ result = None
    /\ prev = None

\* a deterministic baseline, then the interventions applied to it
NextPlan ==
    \/ RunDeterministic
    \/ ApplyInterventions

SpecPlan == InitPlan /\ [][NextPlan]_vars

\* ------------------------------------------------------------------------
\* Inputs of run_monte_carlo: graphs with cycles that never reach an end
\* node, end nodes that have outgoing edges or drop transactions, and middle
\* nodes that fail with two, three or no retries allowed
\* ------------------------------------------------------------------------
WalkProfiles ==
    { [NodeParams EXCEPT !.exec_time_mean = <<2, 1>>, !.exec_time_variance = One,
                         !.cost_per_transaction = <<1, 2>>, !.error_rate = <<1, 2>>,
                         !.max_retries = 2, !.retry_delay = One],
      [NodeParams EXCEPT !.exec_time_mean = <<2, 1>>, !.exec_time_variance = Zero,
                         !.cost_per_transaction = One, !.error_rate = <<1, 2>>],
      [NodeParams EXCEPT !.exec_time_mean = <<4, 1>>, !.exec_time_variance = Zero,
                         !.cost_per_transaction = One, !.drop_off_rate = <<1, 2>>,
                         !.queue_delay_mean = <<3, 1>>, !.queue_delay_variance = One,
                         !.parallelization_factor = 2],
      [NodeParams EXCEPT !.exec_time_mean = One, !.exec_time_variance = Zero,
                         !.cost_per_transaction = One, !.error_rate = <<3, 4>>,
                         !.max_retries = 3, !.retry_delay = One,
                         !.drop_off_rate = <<1, 4>>] }

\* the parameters of node 3: nothing happens there, or half the visits drop
LastProfiles ==
    { InstantParams, [InstantParams EXCEPT !.drop_off_rate = <<1, 2>>] }

WalkKinds ==
    { <<"start", "api", "end">>, <<"start", "end", "api">>, <<"start", "decision", "end">> }

WalkSlots ==
    << Edge(1, 2, "normal", One),
       Edge(2, 3, "conditional", <<1, 2>>),
       Edge(2, 1, "loop", <<2, 5>>),
       Edge(3, 2, "normal", One) >>

WalkWorkflows ==
    {WorkflowGraph(<<Node(1, k[1], InstantParams), Node(2, k[2], p), Node(3, k[3], q)>>, es) :
        k \in WalkKinds, p \in WalkProfiles, q \in LastProfiles, es \in EdgeLists(WalkSlots)}

\* config.seed as the callers pass it: integers
WalkSeeds == {<<0>>, <<3>>, <<7>>, <<10>>}

InitWalk ==
    /\ \E wf \in WalkWorkflows : heap = <<wf>>
    /\ \E n \in 1..MaxTransactions, seed \in WalkSeeds :
          config = SimulationConfig(n, seed, <<100, 1>>)
    /\ call = "load"
    /\ arg = None
    /\ result = None
    /\ prev = None

NextWalk == RunMonteCarlo

SpecWalk == InitWalk /\ [][NextWalk]_vars

\* ------------------------------------------------------------------------
\* Inputs of validate_graph: the graphs of the structural operations, graphs
\* with edges whose source or target is not a node, the empty graph and
\* graphs of one or two nodes
\* ------------------------------------------------------------------------
DanglingSlots ==
    << Edge(1, 2, "normal", One),
       Edge(2, 3, "normal", One),
       Edge(3, 9, "normal", One),
       Edge(8, 1, "normal", One),
       Edge(9, 9, "loop", One) >>

DanglingWorkflows ==
    {WorkflowGraph(<<Node(1, k[1], InstantParams), Node(2, k[2], PlainParams),
                     Node(3, k[3], InstantParams)>>, es) :
        k \in GraphKinds, es \in EdgeLists(DanglingSlots)}

SmallWorkflows ==
    {WorkflowGraph(<<>>, <<>>)}
    \cup {WorkflowGraph(<<Node(1, t, InstantParams)>>, es) :
              t \in {"start", "end", "api"},
              es \in {<<>>, <<Edge(1, 1, "loop", One)>>, <<Edge(1, 1, "normal", One)>>}}
    \cup {WorkflowGraph(<<Node(1, "start", InstantParams), Node(2, "end", InstantParams)>>, es) :
              es \in {<<>>, <<Edge(1, 2, "normal", One)>>, <<Edge(2, 1, "normal", One)>>}}

ValidateWorkflows == GraphWorkflows \cup DanglingWorkflows \cup SmallWorkflows

InitValidate ==
    /\ \E wf \in ValidateWorkflows : heap = <<wf>>
    /\ config = SimulationConfig(1, <<7>>, <<100, 1>>)
    /\ call = "load"
    /\ arg = None
    /\ result = None
    /\ prev = None

NextValidate == ValidateGraph

SpecValidate == InitValidate /\ [][NextValidate]_vars

\* ------------------------------------------------------------------------
\* Inputs of _repair_connectivity: graphs of four nodes in one to four
\* components, with one or two start nodes, one or two end nodes, or no end
\* node, and components that are single nodes, chains or cycles
\* ------------------------------------------------------------------------
RepairKinds ==
    { <<"start", "api", "end", "api">>, <<"start", "start", "end", "api">>,
      <<"start", "end", "end", "api">>, <<"start", "end", "api", "api">>,
      <<"start", "api", "api", "api">> }

RepairSlots ==
    << Edge(1, 2, "normal", One),
       Edge(2, 3, "normal", One),
       Edge(1, 3, "normal", One),
       Edge(3, 4, "normal", One),
       Edge(4, 4, "loop", One),
       Edge(2, 1, "loop", One) >>

RepairWorkflows ==
    {WorkflowGraph(<<Node(1, k[1], InstantParams), Node(2, k[2], PlainParams),
                     Node(3, k[3], InstantParams), Node(4, k[4], PlainParams)>>, es) :
        k \in RepairKinds, es \in EdgeLists(RepairSlots)}

InitRepair ==
    /\ \E wf \in RepairWorkflows : heap = <<wf>>
    /\ config = SimulationConfig(1, <<7>>, <<100, 1>>)
    /\ call = "load"
    /\ arg = None
    /\ result = None
    /\ prev = None

\* workflow = _repair_connectivity(workflow): the graph returned is result
RepairConnectivity ==
    /\ Fresh
    /\ \E ord \in IterationOrders(node_ids(workflow)) :
          result' = _repair_connectivity(workflow, ord)
    /\ call' = "_repair_connectivity"
    /\ arg' = None
    /\ heap' = Collected
    /\ prev' = Remember
    /\ UNCHANGED config

NextRepair == RepairConnectivity

SpecRepair == InitRepair /\ [][NextRepair]_vars

\* ------------------------------------------------------------------------
\* Inputs of the branching of run_monte_carlo: a start node, a node that is
\* a decision, a parallel gateway or a plain step, and an end node; the
\* middle node has up to four outgoing edges, with probabilities of zero
\* and above zero
\* ------------------------------------------------------------------------
BranchKinds ==
    { <<"start", "decision", "end">>, <<"start", "parallel_gateway", "end">>,
      <<"start", "api", "end">> }

BranchSlots ==
    << Edge(1, 2, "normal", One),
       Edge(2, 2, "loop", Zero),
       Edge(2, 3, "conditional", <<1, 2>>),
       Edge(2, 1, "loop", <<1, 2>>),
       Edge(2, 3, "conditional", Zero) >>

BranchWorkflows ==
    {WorkflowGraph(<<Node(1, k[1], InstantParams), Node(2, k[2], PlainParams),
                     Node(3, k[3], InstantParams)>>, es) :
        k \in BranchKinds, es \in EdgeLists(BranchSlots)}

InitBranch ==
    /\ \E wf \in BranchWorkflows : heap = <<wf>>
    /\ \E n \in 1..MaxTransactions, seed \in WalkSeeds :
          config = SimulationConfig(n, seed, <<100, 1>>)
    /\ call = "load"
    /\ arg = None
    /\ result = None
    /\ prev = None

NextBranch == RunMonteCarlo

SpecBranch == InitBranch /\ [][NextBranch]_vars

\* ------------------------------------------------------------------------
\* Inputs of postprocess_raw_workflow: raw graphs of a start node, a
\* decision, an end node and a fourth node (a step or a decision, or the end
\* node after a step, or no end node at all), with edges that leave the
\* fourth node apart, that spell an id differently, or that name no node
\* ------------------------------------------------------------------------
RawKinds ==
    { <<"start", "decision", "end", "api">>, <<"start", "decision", "end", "decision">>,
      <<"start", "decision", "api", "end">>, <<"start", "decision", "api", "api">> }

RawSlots ==
    << Edge(1, 2, "normal", One),
       Edge(2, 3, "conditional", <<1, 2>>),
       Edge(2, 1, "loop", <<1, 2>>),
       Edge(12, 13, "conditional", <<1, 4>>),
       Edge(4, 4, "loop", One),
       Edge(4, 9, "normal", One),
       Edge(0, 3, "normal", One) >>

RawWorkflows ==
    {[nodes |-> <<[id |-> 1, node_type |-> k[1], exec_time_mean |-> None],
                  [id |-> 2, node_type |-> k[2], exec_time_mean |-> t],
                  [id |-> 3, node_type |-> k[3], exec_time_mean |-> None],
                  [id |-> 4, node_type |-> k[4], exec_time_mean |-> None]>>,
      edges |-> es] :
        k \in RawKinds, t \in {None, <<2, 1>>}, es \in EdgeLists(RawSlots)}

InitPostprocess ==
    /\ \E raw \in RawWorkflows : heap = <<raw>>
    /\ config = SimulationConfig(1, <<7>>, <<100, 1>>)
    /\ call = "load"
    /\ arg = None
    /\ result = None
    /\ prev = None

\* postprocess_raw_workflow(raw, strict): the graph returned, or the
\* exception raised, is result
PostprocessRawWorkflow ==
    /\ Fresh
    /\ \E strict \in BOOLEAN, ord \in IterationOrders(node_ids(heap[1])) :
          /\ arg' = <<strict>>
          /\ result' = postprocess_raw_workflow(heap[1], strict, ord)
    /\ call' = "postprocess_raw_workflow"
    /\ heap' = Collected
    /\ prev' = Remember
    /\ UNCHANGED config

NextPostprocess == PostprocessRawWorkflow

SpecPostprocess == InitPostprocess /\ [][NextPostprocess]_vars

\* ------------------------------------------------------------------------
\* Properties
\* ------------------------------------------------------------------------
\* x comes before y in the list order
Before(order, x, y) ==
    /\ x \in Range(order)
    /\ y \in Range(order)
    /\ IndexOf(order, x) < IndexOf(order, y)

\* the sum of the probabilities of the edges leaving a node
OutgoingSum(wf, node_id) == SumProb(wf.edges, OutgoingIdx(wf, node_id))

InUnitInterval(x) == RLe(Zero, x) /\ RLe(x, One)

\* C1 (as the specification states it): after run_deterministic on any graph,
\* every start node has visit probability exactly 1.0 and every other node
\* has a visit probability between 0 and 1.
C1_VisitProbabilityInUnitInterval ==
    call = "run_deterministic" =>
        \A i \in 1..Len(workflow.nodes) :
            workflow.nodes[i].id \in DOMAIN result.visit_prob =>
                IF workflow.nodes[i].node_type = "start"
                THEN result.visit_prob[workflow.nodes[i].id] = One
                ELSE InUnitInterval(result.visit_prob[workflow.nodes[i].id])

\* C1: a run over an acyclic graph with one start node, no decision node
\* and every edge at probability 1.0, in which branches that meet again give
\* a node a visit probability above 1 and more transactions complete than
\* were submitted
C1_Reconvergence ==
    /\ call = "run_deterministic"
    /\ \E i \in 1..Len(workflow.nodes) :
          /\ workflow.nodes[i].id \in DOMAIN result.visit_prob
          /\ workflow.nodes[i].node_type # "start"
          /\ RLt(One, result.visit_prob[workflow.nodes[i].id])
    /\ Len(get_start_nodes(workflow)) = 1
    /\ get_decision_nodes(workflow) = <<>>
    /\ IsDag(build_nx_graph(workflow))
    /\ \A i \in 1..Len(workflow.edges) : workflow.edges[i].probability = One
    /\ result.completed_transactions > result.total_transactions

\* the graph topological_execution_order sorts when no cycle is left to break
WithoutLoopEdges(wf) == RemoveEdges(build_nx_graph(wf), LoopEdgePairs(wf))

\* C2 (as the specification states it): the order returned by
\* topological_execution_order places the source of every edge that is not
\* loop-typed before its target.
C2_EveryNonLoopEdgeOrdered ==
    call = "topological_execution_order" =>
        \A i \in 1..Len(workflow.edges) :
            workflow.edges[i].edge_type # "loop" =>
                Before(result, workflow.edges[i].source, workflow.edges[i].target)

\* C2 (amended): when the graph is acyclic once the loop-typed edges are
\* removed, the order places the source of every remaining edge (every edge
\* that does not join the same two nodes as a loop-typed edge) before its
\* target.
C2_AcyclicNonLoopEdgesOrdered ==
    (call = "topological_execution_order" /\ IsDag(WithoutLoopEdges(workflow))) =>
        \A i \in 1..Len(workflow.edges) :
            <<workflow.edges[i].source, workflow.edges[i].target>>
                    \notin LoopEdgePairs(workflow) =>
                Before(result, workflow.edges[i].source, workflow.edges[i].target)

\* C2: an order computed for a graph with a loop-typed edge closing a cycle
\* and an ordinary edge that runs against the order the nodes are listed in
C2_Witness ==
    /\ call = "topological_execution_order"
    /\ IsDag(WithoutLoopEdges(workflow))
    /\ ~IsDag(build_nx_graph(workflow))
    /\ \E i \in 1..Len(workflow.edges) :
          /\ workflow.edges[i].edge_type # "loop"
          /\ workflow.edges[i].target < workflow.edges[i].source
          /\ <<workflow.edges[i].source, workflow.edges[i].target>>
                 \notin LoopEdgePairs(workflow)

\* C3: after normalize_decision_probabilities, the probabilities of the edges
\* leaving every decision node that has an outgoing edge sum to within 1e-3
\* of 1.0, whatever they were before.
C3_DecisionProbabilitiesSumToOne ==
    call = "normalize_decision_probabilities" =>
        \A i \in 1..Len(workflow.nodes) :
            (workflow.nodes[i].node_type = "decision"
                 /\ OutgoingIdx(workflow, workflow.nodes[i].id) # <<>>) =>
                RLe(RAbs(RSub(OutgoingSum(workflow, workflow.nodes[i].id), One)), Tolerance)

\* C3: a normalized graph with one decision node whose probabilities were
\* all zero and another whose probabilities summed above 1
C3_Witness ==
    /\ call = "normalize_decision_probabilities"
    /\ \E i, j \in 1..Len(workflow.nodes) :
          /\ workflow.nodes[i].node_type = "decision"
          /\ workflow.nodes[j].node_type = "decision"
          /\ Len(OutgoingIdx(workflow, workflow.nodes[i].id)) >= 2
          /\ OutgoingSum(prev.workflow, workflow.nodes[i].id) = Zero
          /\ RLt(One, OutgoingSum(prev.workflow, workflow.nodes[j].id))
          /\ OutgoingSum(workflow, workflow.nodes[i].id) = One
          /\ OutgoingSum(workflow, workflow.nodes[j].id) = One

\* the aggregate metrics of a SimulationResults: everything but the per-node list
Aggregates(r) == [f \in (DOMAIN r) \ {"node_metrics"} |-> r[f]]

RepeatedRun == call = "run_monte_carlo" /\ prev.call = "run_monte_carlo"

\* C4 (as the specification states it): two run_monte_carlo invocations with
\* the same graph and the same SimulationConfig, whatever its seed field
\* holds, return identical aggregate metrics.
C4_SameConfigSameAggregates ==
    RepeatedRun => Aggregates(result) = Aggregates(prev.result)

\* C4 (amended): two run_monte_carlo invocations with the same graph and the
\* same SimulationConfig whose seed is an integer return identical aggregate
\* metrics.
C4_IntegerSeedSameAggregates ==
    (RepeatedRun /\ config.seed # None) => Aggregates(result) = Aggregates(prev.result)

\* C4: a repeated run with an integer seed in which a node with a sampled
\* execution time and an error draw was visited
C4_Witness ==
    /\ RepeatedRun
    /\ config.seed # None
    /\ config.num_transactions = MaxTransactions
    /\ \E i \in 1..Len(workflow.nodes) :
          /\ RLt(Zero, workflow.nodes[i].params.exec_time_variance)
          /\ RLt(Zero, workflow.nodes[i].params.error_rate)
          /\ result.node_metrics # <<>>
          /\ result.node_metrics[i].transactions_processed > 0

ParamNames == DOMAIN NodeParams

\* the (node, parameter) places where two graphs hold different values
ParamDiffs(a, b) ==
    {x \in (1..Len(a.nodes)) \X ParamNames :
        a.nodes[x[1]].params[x[2]] # b.nodes[x[1]].params[x[2]]}

\* everything but the node parameters is the same
SameButParams(a, b) ==
    /\ a.edges = b.edges
    /\ Len(a.nodes) = Len(b.nodes)
    /\ \A i \in 1..Len(a.nodes) :
          a.nodes[i].id = b.nodes[i].id /\ a.nodes[i].node_type = b.nodes[i].node_type

\* C5: during and after run_sensitivity_analysis the caller's graph is as it
\* was; every perturbed copy differs from it in exactly one parameter of
\* exactly one node; and the copies, when the call returns, are still as they
\* were simulated (no perturbation reached another copy).
C5_PerturbationsIsolated ==
    call = "run_sensitivity_analysis" =>
        /\ heap[1] = prev.workflow
        /\ \A i \in 1..Len(result.seen) : result.seen[i] = prev.workflow
        /\ SubSeq(heap, 2, Len(heap)) = result.perturbed
        /\ \A i \in 1..Len(result.perturbed) :
              /\ SameButParams(prev.workflow, result.perturbed[i])
              /\ Cardinality(ParamDiffs(prev.workflow, result.perturbed[i])) = 1

\* C5: an analysis that perturbed a continuous parameter and the worker
\* count of the same node, on separate copies
C5_Witness ==
    /\ call = "run_sensitivity_analysis"
    /\ \E i, j \in 1..Len(result.perturbed) :
          /\ ParamDiffs(prev.workflow, result.perturbed[i]) = {<<2, "error_rate">>}
          /\ ParamDiffs(prev.workflow, result.perturbed[j]) = {<<2, "parallelization_factor">>}
    /\ Len(result.entries) = 2 * Len(result.perturbed)

\* the node ids a list of interventions names
TargetIds(interventions) == {interventions[i].node_id : i \in 1..Len(interventions)}

\* C6: apply_interventions leaves the caller's graph as it was; it makes one
\* copy, and every parameter written is written to that copy, on a node an
\* intervention names.
C6_InterventionsOnOneCopy ==
    call = "apply_interventions" =>
        /\ heap[1] = prev.workflow
        /\ Len(heap) = 2
        /\ result.optimized_wf = heap[2]
        /\ SameButParams(heap[1], heap[2])
        /\ \A x \in ParamDiffs(heap[1], heap[2]) : heap[1].nodes[x[1]].id \in TargetIds(arg)

\* C6: two interventions applied, the copy changed in more than one parameter
C6_Witness ==
    /\ call = "apply_interventions"
    /\ Len(arg) = MaxInterventions
    /\ Len(heap) = 2
    /\ Cardinality(ParamDiffs(heap[1], heap[2])) > 1
    /\ result.optimized_results # prev.result

ReadOnlyOperations ==
    {"validate_graph", "topological_execution_order", "get_all_paths",
     "run_deterministic", "run_monte_carlo"}

\* the ids of the decision nodes
DecisionIds(wf) == {get_decision_nodes(wf)[i].id : i \in 1..Len(get_decision_nodes(wf))}

\* C7: validate_graph, topological_execution_order, get_all_paths,
\* run_deterministic and run_monte_carlo leave the graph they are given as it
\* was; normalize_decision_probabilities changes nothing but the probability
\* of edges that leave decision nodes.
C7_OnlyNormalizationMutates ==
    /\ call \in ReadOnlyOperations => heap = <<prev.workflow>>
    /\ call = "normalize_decision_probabilities" =>
          /\ workflow.nodes = prev.workflow.nodes
          /\ Len(workflow.edges) = Len(prev.workflow.edges)
          /\ \A i \in 1..Len(workflow.edges) :
                /\ [workflow.edges[i] EXCEPT !.probability = Zero]
                       = [prev.workflow.edges[i] EXCEPT !.probability = Zero]
                /\ workflow.edges[i] # prev.workflow.edges[i] =>
                       workflow.edges[i].source \in DecisionIds(prev.workflow)

\* C7: a normalization that rewrote the probabilities of a decision node and
\* left an edge of another node, of probability 1.0 beside a second edge, alone
C7_Witness ==
    /\ call = "normalize_decision_probabilities"
    /\ workflow # prev.workflow
    /\ \E i, j \in 1..Len(workflow.edges) :
          /\ i # j
          /\ workflow.edges[i].source = workflow.edges[j].source
          /\ workflow.edges[i].source \notin DecisionIds(workflow)
          /\ workflow.edges[i].probability = One
          /\ workflow.edges[j].probability = One

\* C8: the total-time statistics of every SimulationResults either engine
\* returns satisfy min <= p50 <= p95 <= p99 <= max.
C8_PercentilesOrdered ==
    call \in {"run_deterministic", "run_monte_carlo"} =>
        /\ RLe(result.min_total_time, result.p50_total_time)
        /\ RLe(result.p50_total_time, result.p95_total_time)
        /\ RLe(result.p95_total_time, result.p99_total_time)
        /\ RLe(result.p99_total_time, result.max_total_time)

\* C8: a Monte Carlo run in which no transaction completed and the
\* transactions took different times
C8_Witness ==
    /\ call = "run_monte_carlo"
    /\ result.total_transactions = MaxTransactions
    /\ result.completed_transactions = 0
    /\ RLt(result.min_total_time, result.p50_total_time)
    /\ RLt(result.p50_total_time, result.max_total_time)

\* C9: the list detect_bottlenecks returns has at most top_n entries, its
\* scores are non-negative and non-increasing, and it is empty when the
\* results hold no node metrics.
C9_BottlenecksRanked ==
    call = "detect_bottlenecks" =>
        /\ Len(result) <= arg[1]
        /\ \A i \in 1..Len(result) : RLe(Zero, result[i].score)
        /\ \A i \in 1..(Len(result) - 1) : RLe(result[i + 1].score, result[i].score)
        /\ prev.result.node_metrics = <<>> => result = <<>>

\* C9: a list cut to top_n, shorter than the nodes scored, with unequal scores
C9_Witness ==
    /\ call = "detect_bottlenecks"
    /\ arg[1] = 2
    /\ Len(result) = 2
    /\ Len(ScoredNodes(prev.result.node_metrics)) = 3
    /\ RLt(result[2].score, result[1].score)
    /\ result[1].node_id # prev.result.node_metrics[1].node_id

\* C10: the list rank_leverage returns has at most top_n entries, its scores
\* lie between 0 and 1 and are non-increasing, and its first entry scores
\* exactly 1.0 whenever some (node, parameter) record has a non-zero raw score.
C10_LeverageNormalized ==
    call = "rank_leverage" =>
        /\ Len(result) <= arg[1]
        /\ \A i \in 1..Len(result) : InUnitInterval(result[i].leverage_score)
        /\ \A i \in 1..(Len(result) - 1) :
              RLe(result[i + 1].leverage_score, result[i].leverage_score)
        /\ (arg[1] >= 1 /\ \E i \in 1..Len(RawScores(prev.result.entries)) :
                              RawScores(prev.result.entries)[i] # Zero) =>
              (result # <<>> /\ result[1].leverage_score = One)

\* C10: a ranking of a report that repeats a record, cut to top_n, whose
\* first entry scores 1.0 and whose second scores less
C10_Witness ==
    /\ call = "rank_leverage"
    /\ Len(prev.result.entries) = MaxEntries
    /\ Len(ImpactKeys(prev.result.entries)) = 2
    /\ arg[1] = 2
    /\ Len(result) = 2
    /\ result[1].leverage_score = One
    /\ RLt(Zero, result[2].leverage_score)
    /\ RLt(result[2].leverage_score, One)

\* every percentage and worker field of every intervention is zero
ZeroValued(interventions) ==
    \A i \in 1..Len(interventions) :
        /\ interventions[i].time_reduction_pct = Zero
        /\ interventions[i].cost_reduction_pct = Zero
        /\ interventions[i].error_reduction_pct = Zero
        /\ interventions[i].capacity_increase_pct = Zero
        /\ interventions[i].queue_reduction_pct = Zero
        /\ interventions[i].parallelization_increase = 0

\* |x| < 1e-3, false for nan as in IEEE 754
NearZero(x) == RLt(RAbs(x), <<1, 1000>>)

\* C11: when apply_interventions is given an empty list or interventions
\* whose every percentage and worker field is zero, on the baseline of
\* run_deterministic for the same graph and config, every MetricDelta has an
\* absolute change within 1e-3 of zero, the throughput delta of a graph of
\* zero total time included.
C11_ZeroInterventionsZeroDeltas ==
    (call = "apply_interventions" /\ ZeroValued(arg)) =>
        \A i \in 1..Len(result.deltas) : NearZero(result.deltas[i].absolute_change)

\* C11: no interventions on a graph whose total time is zero: both
\* throughputs are infinite and their difference is not a number
C11_InfiniteThroughput ==
    /\ call = "apply_interventions"
    /\ arg = <<>>
    /\ prev.result.avg_total_time = Zero
    /\ prev.result.throughput_per_hour = Inf
    /\ result.optimized_results.throughput_per_hour = Inf
    /\ result.deltas[3].absolute_change = NaN
    /\ \A i \in {1, 2, 4, 5, 6} : result.deltas[i].absolute_change = Zero

\* the interventions that name node `id` with a time reduction above zero
TimeCuts(interventions, id) ==
    {i \in 1..Len(interventions) :
        /\ interventions[i].node_id = id
        /\ RLt(Zero, interventions[i].time_reduction_pct)}

\* the graph has exactly one start-to-end path, node `id` lies on it and has
\* a non-zero execution time
OnOnlyPath(wf, id) ==
    /\ Len(get_all_paths(wf)) = 1
    /\ id \in Range(get_all_paths(wf)[1])
    /\ has_node(wf, id)
    /\ get_node(wf, id).params.exec_time_mean # Zero

\* every edge that joins two consecutive nodes of the path has a
\* probability above zero
PositivePath(wf, path) ==
    \A i \in 1..Len(wf.edges) :
        (\E k \in 1..(Len(path) - 1) :
            wf.edges[i].source = path[k] /\ wf.edges[i].target = path[k + 1])
        => RLt(Zero, wf.edges[i].probability)

\* the optimized run is no slower and no dearer than the baseline
NeverWorse ==
    /\ RLe(result.optimized_results.avg_total_time, prev.result.avg_total_time)
    /\ RLe(result.optimized_results.avg_total_cost, prev.result.avg_total_cost)
    /\ RLe(Zero, result.time_saved_pct)
    /\ RLe(Zero, result.cost_saved_pct)

RaisedEntries(entries, parameter, metric_name) ==
    {i \in 1..Len(entries) :
        /\ entries[i].parameter = parameter
        /\ entries[i].metric_name = metric_name
        /\ RLt(Zero, entries[i].baseline_value)}

\* C13: in every sensitivity report, for a node whose baseline value is
\* positive, raising exec_time_mean does not lower avg_total_time and raising
\* cost_per_transaction does not lower avg_total_cost: the absolute impact
\* recorded is at least zero.
C13_RaisingNeverLowers ==
    call = "run_sensitivity_analysis" =>
        /\ \A i \in RaisedEntries(result.entries, "exec_time_mean", "avg_total_time") :
              /\ RLt(result.entries[i].baseline_value, result.entries[i].perturbed_value)
              /\ RLe(result.entries[i].baseline_metric, result.entries[i].perturbed_metric)
              /\ RLe(Zero, result.entries[i].absolute_impact)
        /\ \A i \in RaisedEntries(result.entries, "cost_per_transaction", "avg_total_cost") :
              /\ RLt(result.entries[i].baseline_value, result.entries[i].perturbed_value)
              /\ RLe(result.entries[i].baseline_metric, result.entries[i].perturbed_metric)
              /\ RLe(Zero, result.entries[i].absolute_impact)

\* C13: a report in which a longer execution raised the total time and a
\* higher cost per transaction raised the total cost
C13_Witness ==
    /\ call = "run_sensitivity_analysis"
    /\ \E i \in RaisedEntries(result.entries, "exec_time_mean", "avg_total_time") :
          RLt(Zero, result.entries[i].absolute_impact)
    /\ \E i \in RaisedEntries(result.entries, "cost_per_transaction", "avg_total_cost") :
          RLt(Zero, result.entries[i].absolute_impact)

\* a finite number, neither None nor inf nor nan
IsNumber(x) == x # None /\ x[2] # 0

\* (baseline cost - optimized cost) * volume_per_hour * hours_per_year
AnnualSavings ==
    RMul(RMul(RSub(prev.result.avg_total_cost, result.optimized_results.avg_total_cost),
              config.volume_per_hour),
         I2R(hours_per_year))

\* C14: in the comparison apply_interventions returns, roi_ratio is None
\* exactly when the implementation costs of the interventions sum to zero and
\* payback_months is None exactly when the annual cost savings are not above
\* zero; otherwise each is a finite number.
C14_RoiAndPaybackGuarded ==
    call = "apply_interventions" =>
        /\ result.roi_ratio = None <=>
              (\A i \in 1..Len(arg) : arg[i].implementation_cost = Zero)
        /\ result.payback_months = None <=> ~RLt(Zero, AnnualSavings)
        /\ result.roi_ratio # None => IsNumber(result.roi_ratio)
        /\ result.payback_months # None => IsNumber(result.payback_months)

\* C14: interventions that cost something and save something: both ratios
\* are numbers above zero
C14_Witness ==
    /\ call = "apply_interventions"
    /\ RLt(Zero, result.total_implementation_cost)
    /\ RLt(Zero, AnnualSavings)
    /\ IsNumber(result.roi_ratio) /\ RLt(Zero, result.roi_ratio)
    /\ IsNumber(result.payback_months) /\ RLt(Zero, result.payback_months)

\* a run_monte_carlo call that simulated transactions (the graph has a start node)
Simulated == call = "run_monte_carlo" /\ get_start_nodes(workflow) # <<>>

\* the last visit a transaction made
LastVisit(t) == t.trace[Len(t.trace)]

\* the transaction stopped at the hop limit: its last visit neither dropped
\* it nor was at an end node, and that node has an edge to follow
CutOff(wf, t) ==
    /\ Len(t.trace) = 10 * Len(wf.nodes)
    /\ ~LastVisit(t).dropped
    /\ LastVisit(t).node_type # "end"
    /\ get_outgoing_edges(wf, LastVisit(t).node_id) # <<>>

\* C15: run_monte_carlo returns a result for every graph, cycles that never
\* reach an end node included: every transaction is simulated, none visits
\* more than 10 x (number of nodes) nodes, and one cut off at that limit is
\* counted as not completed.
C15_HopLimit ==
    Simulated =>
        /\ Len(result.transactions) = config.num_transactions
        /\ \A i \in 1..Len(result.transactions) :
              /\ Len(result.transactions[i].trace) <= 10 * Len(workflow.nodes)
              /\ CutOff(workflow, result.transactions[i]) => ~result.transactions[i].completed
        /\ result.completed_transactions =
              Cardinality({i \in 1..Len(result.transactions) : result.transactions[i].completed})
        /\ result.completed_transactions <= result.total_transactions

\* C15: a graph whose only way on from node 2 leads back to node 1: every
\* transaction is cut off after 30 visits and none completes
C15_Witness ==
    /\ Simulated
    /\ config.num_transactions = MaxTransactions
    /\ \A i \in 1..Len(result.transactions) : CutOff(workflow, result.transactions[i])
    /\ result.completed_transactions = 0
    /\ get_end_nodes(workflow) # <<>>

\* the kinds of issue a list of issues holds
IssueKinds(issues) == {issues[i][1] : i \in 1..Len(issues)}

HasStartAndEnd(wf) ==
    /\ \E i \in 1..Len(wf.nodes) : wf.nodes[i].node_type = "start"
    /\ \E i \in 1..Len(wf.nodes) : wf.nodes[i].node_type = "end"

EndpointsExist(wf) ==
    \A i \in 1..Len(wf.edges) :
        /\ \E n \in 1..Len(wf.nodes) : wf.nodes[n].id = wf.edges[i].source
        /\ \E n \in 1..Len(wf.nodes) : wf.nodes[n].id = wf.edges[i].target

\* in a graph of more than one node, every node that is neither a start nor
\* an end node is the source or the target of an edge
NoOrphans(wf) ==
    Len(wf.nodes) > 1 =>
        \A n \in 1..Len(wf.nodes) :
            wf.nodes[n].node_type \notin {"start", "end"} =>
                \E i \in 1..Len(wf.edges) :
                    wf.nodes[n].id \in {wf.edges[i].source, wf.edges[i].target}

\* every decision node with outgoing edges has probabilities that sum to 1.0
\* within 0.01
DecisionsNormalized(wf) ==
    \A n \in 1..Len(wf.nodes) :
        (/\ wf.nodes[n].node_type = "decision"
         /\ \E i \in 1..Len(wf.edges) : wf.edges[i].source = wf.nodes[n].id) =>
            /\ RLe(<<99, 100>>, OutgoingSum(wf, wf.nodes[n].id))
            /\ RLe(OutgoingSum(wf, wf.nodes[n].id), <<101, 100>>)

OnlyLoopSelfEdges(wf) ==
    \A i \in 1..Len(wf.edges) :
        wf.edges[i].source = wf.edges[i].target => wf.edges[i].edge_type = "loop"

\* the ids that are nodes or edge endpoints
AllIds(wf) ==
    {wf.nodes[n].id : n \in 1..Len(wf.nodes)}
    \cup {wf.edges[i].source : i \in 1..Len(wf.edges)}
    \cup {wf.edges[i].target : i \in 1..Len(wf.edges)}

\* the partition of the ids into two non-empty parts with no edge between them
Split(wf, part) ==
    /\ part # {} /\ part # AllIds(wf)
    /\ \A i \in 1..Len(wf.edges) : (wf.edges[i].source \in part) = (wf.edges[i].target \in part)

WeaklyConnected(wf) == ~\E part \in SUBSET AllIds(wf) : Split(wf, part)

\* C16: validate_graph returns no issue exactly when the graph has a start
\* and an end node, every edge joins existing nodes, no node other than a
\* start or end node is without edges, every decision node with outgoing edges
\* has probabilities summing to 1.0 within 0.01, only loop-typed edges join a
\* node to itself, and the graph is weakly connected; each condition that
\* fails is reported by an issue of its own kind.
C16_EmptyIffSound ==
    call = "validate_graph" =>
        /\ result = <<>> <=>
              (/\ HasStartAndEnd(workflow) /\ EndpointsExist(workflow) /\ NoOrphans(workflow)
               /\ DecisionsNormalized(workflow) /\ OnlyLoopSelfEdges(workflow)
               /\ WeaklyConnected(workflow))
        /\ ~HasStartAndEnd(workflow) => IssueKinds(result) \cap {"no_start", "no_end"} # {}
        /\ ~EndpointsExist(workflow) =>
              IssueKinds(result) \cap {"edge_source_not_found", "edge_target_not_found"} # {}
        /\ ~NoOrphans(workflow) => "orphaned" \in IssueKinds(result)
        /\ ~DecisionsNormalized(workflow) => "probabilities_sum" \in IssueKinds(result)
        /\ ~OnlyLoopSelfEdges(workflow) => "self_loop" \in IssueKinds(result)
        /\ (Len(workflow.nodes) > 1 /\ ~WeaklyConnected(workflow)) =>
              "not_weakly_connected" \in IssueKinds(result)

\* C16: a sound graph that has a decision node, a loop-typed self-loop and a
\* cycle, validated without an issue
C16_Witness ==
    /\ call = "validate_graph"
    /\ result = <<>>
    /\ get_decision_nodes(workflow) # <<>>
    /\ \E i \in 1..Len(workflow.edges) : workflow.edges[i].source = workflow.edges[i].target
    /\ Len(workflow.edges) = MaxEdges

\* C17: in the result of run_deterministic, throughput_per_hour is
\* 3600 / avg_total_time when avg_total_time is above zero and is infinite
\* exactly when avg_total_time is zero; a result is returned in both cases.
C17_ThroughputGuarded ==
    call = "run_deterministic" =>
        /\ result.avg_total_time[2] # 0
        /\ RLe(Zero, result.avg_total_time)
        /\ RLt(Zero, result.avg_total_time) =>
              /\ result.throughput_per_hour[2] # 0
              /\ RMul(result.throughput_per_hour, result.avg_total_time) = <<3600, 1>>
        /\ result.throughput_per_hour = Inf <=> result.avg_total_time = Zero

\* C17: a graph with no end node whose nodes take time: the total time is
\* zero and the throughput infinite
C17_Witness ==
    /\ call = "run_deterministic"
    /\ get_end_nodes(workflow) = <<>>
    /\ \E i \in 1..Len(result.node_metrics) :
          /\ RLt(Zero, result.node_metrics[i].avg_time)
          /\ result.node_metrics[i].transactions_processed > 0
    /\ result.avg_total_time = Zero
    /\ result.throughput_per_hour = Inf

\* C18: after _repair_connectivity a graph that has a start node and an end
\* node is weakly connected, however many components, start nodes or end
\* nodes it had, and it keeps every node.
C18_RepairConnects ==
    call = "_repair_connectivity" =>
        /\ result.nodes = workflow.nodes
        /\ HasStartAndEnd(workflow) => WeaklyConnected(result)

\* C18: a graph with two start nodes in separate components, an end node
\* and no orphan component: only one start is joined to the end, and the
\* graph returned is not weakly connected
C18_SecondStartLeftOut ==
    /\ call = "_repair_connectivity"
    /\ Len(get_start_nodes(workflow)) = 2
    /\ Len(get_end_nodes(workflow)) = 1
    /\ Len(result.edges) > Len(workflow.edges)
    /\ result.nodes = workflow.nodes
    /\ ~WeaklyConnected(result)

\* the transaction reached an end node and no visit of it dropped it
ReachedEndUndropped(t) ==
    /\ \E k \in 1..Len(t.trace) : t.trace[k].node_type = "end"
    /\ \A k \in 1..Len(t.trace) : ~t.trace[k].dropped

\* no visit follows one that dropped the transaction or was at an end node
StopsAtDropOrEnd(t) ==
    \A k \in 1..(Len(t.trace) - 1) :
        ~t.trace[k].dropped /\ t.trace[k].node_type # "end"

\* C19: in run_monte_carlo a transaction is completed exactly when its walk
\* reaches an end node and no drop-off fired at a node it visited, the end
\* node included; no node is visited after a drop-off or after an end node.
C19_CompletedIffEndUndropped ==
    Simulated =>
        \A i \in 1..Len(result.transactions) :
            /\ result.transactions[i].completed <=> ReachedEndUndropped(result.transactions[i])
            /\ StopsAtDropOrEnd(result.transactions[i])

\* C19: one run in which a transaction is dropped at the end node itself,
\* and another completes at an end node that has an outgoing edge
C19_Witness ==
    /\ Simulated
    /\ \E i \in 1..Len(result.transactions) :
          /\ LastVisit(result.transactions[i]).node_type = "end"
          /\ LastVisit(result.transactions[i]).dropped
          /\ ~result.transactions[i].completed
    /\ \E i \in 1..Len(result.transactions) :
          /\ result.transactions[i].completed
          /\ get_outgoing_edges(workflow, LastVisit(result.transactions[i]).node_id) # <<>>

\* the retries of a visit: none without an error, otherwise between one and
\* max_retries, every draw but the last a failure, and the last one a
\* success unless max_retries ran out
RetriesAsDrawn(v, p) ==
    /\ Len(v.draws) = v.retries_used
    /\ ~v.errored => v.retries_used = 0
    /\ v.errored => /\ v.retries_used <= p.max_retries
                    /\ p.max_retries > 0 => v.retries_used >= 1
    /\ \A k \in 1..(v.retries_used - 1) : RLt(v.draws[k], p.error_rate)
    /\ (v.retries_used > 0 /\ v.retries_used < p.max_retries)
          => ~RLt(v.draws[v.retries_used], p.error_rate)

\* each retry adds retry_delay and one execution-time sample
RetryTime(v, p) ==
    /\ Len(v.samples) = v.retries_used
    /\ \A k \in 1..Len(v.samples) :
          /\ ~RLt(v.samples[k], Zero)
          /\ ~RLt(Zero, p.exec_time_variance) => v.samples[k] = p.exec_time_mean
    /\ v.time = RAdd(RAdd(v.base, RMul(I2R(v.retries_used), p.retry_delay)),
                     RSumSeq(v.samples))

\* C20: at each visit of run_monte_carlo the retries are 0 without an error
\* event and otherwise 1..max_retries (0 when max_retries is 0), ending at
\* the first retry whose draw succeeds; each retry adds retry_delay and a
\* fresh execution-time sample, and the visit costs cost_per_transaction x
\* (1 + retries used).
C20_RetriesTimeAndCost ==
    Simulated =>
        \A i \in 1..Len(result.transactions) :
            \A k \in 1..Len(result.transactions[i].trace) :
                Let(result.transactions[i].trace[k], LAMBDA v :
                Let(get_node(workflow, v.node_id).params, LAMBDA p :
                    /\ RetriesAsDrawn(v, p)
                    /\ RetryTime(v, p)
                    /\ v.cost = RMul(p.cost_per_transaction, I2R(1 + v.retries_used))))

\* C20: one run with a visit whose second retry succeeded before max_retries
\* ran out, and a visit that used every retry allowed
C20_Witness ==
    /\ Simulated
    /\ \E i \in 1..Len(result.transactions) :
          \E k \in 1..Len(result.transactions[i].trace) :
              Let(result.transactions[i].trace[k], LAMBDA v :
                  /\ v.errored
                  /\ v.retries_used >= 2
                  /\ v.retries_used < get_node(workflow, v.node_id).params.max_retries
                  /\ RLt(Zero, get_node(workflow, v.node_id).params.retry_delay))
    /\ \E i \in 1..Len(result.transactions) :
          \E k \in 1..Len(result.transactions[i].trace) :
              Let(result.transactions[i].trace[k], LAMBDA v :
                  /\ v.errored
                  /\ v.retries_used >= 1
                  /\ v.retries_used = get_node(workflow, v.node_id).params.max_retries)

\* the nodes a transaction may go to from `node`: from a decision the
\* targets of its edges of positive probability, or of its first edge when
\* it has none; from any other node the target of its first edge
AllowedTargets(wf, node) ==
    Let(get_outgoing_edges(wf, node.id), LAMBDA edges :
        IF edges = <<>> \/ node.node_type = "end" THEN {}
        ELSE IF node.node_type = "decision"
                /\ \E i \in 1..Len(edges) : RLt(Zero, edges[i].probability)
        THEN {edges[i].target : i \in {j \in 1..Len(edges) : RLt(Zero, edges[j].probability)}}
        ELSE {edges[1].target})

RECURSIVE WalkReachable(_, _)
\* the node ids reachable from the set S along such steps
WalkReachable(wf, S) ==
    Let(S \cup UNION {AllowedTargets(wf, get_node(wf, id)) : id \in {x \in S : has_node(wf, x)}},
        LAMBDA T : IF T = S THEN S ELSE WalkReachable(wf, T))

\* the transaction went from the decision node 2 straight to node `target`
TookBranch(t, target) ==
    \E k \in 1..(Len(t.trace) - 1) :
        t.trace[k].node_id = 2 /\ t.trace[k + 1].node_id = target

\* C21: in run_monte_carlo every transaction starts at the first start
\* node; after a decision it goes to the target of an edge of positive
\* probability (of the first edge when every probability is zero), after
\* any other node, parallel gateways included, to the target of the first
\* edge; so every node visited is reachable from the first start node along
\* such steps.
C21_NextNodeFollowsEdges ==
    Simulated =>
        /\ \A i \in 1..Len(result.transactions) :
              Let(result.transactions[i].trace, LAMBDA trace :
                  /\ trace # <<>>
                  /\ trace[1].node_id = get_start_nodes(workflow)[1].id
                  /\ \A k \in 1..(Len(trace) - 1) :
                        trace[k + 1].node_id
                            \in AllowedTargets(workflow, get_node(workflow, trace[k].node_id)))
        /\ \A j \in 1..Len(result.node_metrics) :
              result.node_metrics[j].transactions_processed > 0
                  => result.node_metrics[j].node_id
                         \in WalkReachable(workflow, {get_start_nodes(workflow)[1].id})

\* C21: a decision whose first edge has probability zero and whose two
\* other edges have a positive one: one transaction of the run takes the
\* one branch, the other transaction the other, none the first edge
C21_Witness ==
    /\ Simulated
    /\ workflow.nodes[2].node_type = "decision"
    /\ AllowedTargets(workflow, workflow.nodes[2]) = {1, 3}
    /\ get_outgoing_edges(workflow, 2)[1].target = 2
    /\ \E i \in 1..Len(result.transactions) : TookBranch(result.transactions[i], 3)
    /\ \E i \in 1..Len(result.transactions) : TookBranch(result.transactions[i], 1)
    /\ \A i \in 1..Len(result.transactions) : ~TookBranch(result.transactions[i], 2)

\* the edges leaving the decision node after the call, given the graph
\* before it: the equal share when the old sum is zero, the old probability
\* over the old sum when `rescaled` holds of the old sum, the old
\* probability otherwise
ProbabilitiesAfter(before, after, node_id, rescaled) ==
    Let(OutgoingSum(before, node_id), LAMBDA total :
        \A i \in Range(OutgoingIdx(before, node_id)) :
            after.edges[i].probability =
                IF total = Zero THEN Rat(1, Len(OutgoingIdx(before, node_id)))
                ELSE IF rescaled THEN RDiv(before.edges[i].probability, total)
                ELSE before.edges[i].probability)

\* the decision nodes of the graph that have an outgoing edge
BranchingDecisions(wf) ==
    {wf.nodes[i].id : i \in {j \in 1..Len(wf.nodes) :
        wf.nodes[j].node_type = "decision" /\ OutgoingIdx(wf, wf.nodes[j].id) # <<>>}}

\* C22 (as the specification states it): normalize_decision_probabilities
\* makes the outgoing probabilities of every decision node sum to exactly
\* 1.0: 1/k each when the old sum is zero, p / old sum for every old sum
\* different from 1.0.
C22_SumExactlyOne ==
    call = "normalize_decision_probabilities" =>
        \A id \in BranchingDecisions(workflow) :
            /\ OutgoingSum(workflow, id) = One
            /\ ProbabilitiesAfter(prev.workflow, workflow, id,
                                  OutgoingSum(prev.workflow, id) # One)

\* C22 (amended): the probabilities are 1/k each when the old sum is zero
\* and p / old sum when the old sum differs from 1.0 by more than 0.001,
\* and the new sum is then exactly 1.0; an old sum within 0.001 of 1.0 is
\* left as it is.
C22_SumOneBeyondTolerance ==
    call = "normalize_decision_probabilities" =>
        \A id \in BranchingDecisions(workflow) :
            Let(RLt(Tolerance, RAbs(RSub(OutgoingSum(prev.workflow, id), One))),
                LAMBDA beyond :
                /\ ProbabilitiesAfter(prev.workflow, workflow, id, beyond)
                /\ beyond => OutgoingSum(workflow, id) = One
                /\ ~beyond => OutgoingSum(workflow, id) = OutgoingSum(prev.workflow, id))

\* C22: a graph with a decision whose probabilities summed to 0.9995 and are
\* left alone, and a decision whose probabilities were zero and are now
\* equal shares
C22_Witness ==
    /\ call = "normalize_decision_probabilities"
    /\ \E id \in BranchingDecisions(workflow) :
          /\ OutgoingSum(prev.workflow, id) = <<1999, 2000>>
          /\ OutgoingSum(workflow, id) = <<1999, 2000>>
    /\ \E id \in BranchingDecisions(workflow) :
          /\ OutgoingSum(prev.workflow, id) = Zero
          /\ OutgoingSum(workflow, id) = One

RECURSIVE CycleBreaks(_)
\* the passes of the cycle-breaking loop from the graph G: the graph each
\* pass found and the edge it removed
CycleBreaks(G) ==
    IF IsDag(G) THEN <<>>
    ELSE <<[graph |-> G, edge |-> BrokenEdge(G)]>>
         \o CycleBreaks(RemoveEdges(G, {BrokenEdge(G)}))

\* C23: topological_execution_order terminates on every graph, whatever
\* cycles are left once the loop-typed edges are gone: the cycle-breaking
\* loop makes at most one pass per edge, each pass removes an edge that is
\* on a directed cycle of the graph as it stands, and the order returned
\* holds every node id exactly once.
C23_BreaksOnlyCycleEdges ==
    call = "topological_execution_order" =>
        /\ Let(CycleBreaks(WithoutLoopEdges(workflow)), LAMBDA passes :
               /\ Len(passes) <= Len(WithoutLoopEdges(workflow).edges)
               /\ \A k \in 1..Len(passes) :
                     /\ passes[k].edge \in Range(passes[k].graph.edges)
                     /\ OnCycle(passes[k].graph, passes[k].edge))
        /\ Range(result) = node_ids(workflow)
        /\ Len(result) = Cardinality(node_ids(workflow))

\* C23: a graph whose ordinary edges hold two cycles, a self-loop among
\* them: the loop makes two passes and all three nodes are ordered
C23_Witness ==
    /\ call = "topological_execution_order"
    /\ Len(CycleBreaks(WithoutLoopEdges(workflow))) >= 2
    /\ \E k \in 1..Len(CycleBreaks(WithoutLoopEdges(workflow))) :
          CycleBreaks(WithoutLoopEdges(workflow))[k].edge[1]
              = CycleBreaks(WithoutLoopEdges(workflow))[k].edge[2]
    /\ Len(result) = 3

\* the cap a node puts on the throughput: capacity x workers / visit
\* probability
NodeMax(p, vp) == RDiv(RMul(p.capacity_per_hour, I2R(p.parallelization_factor)), vp)

\* the nodes with a capacity that is a number (zero included when
\* `with_zero`) and a positive visit probability
CappingNodes(wf, visit_prob, with_zero) ==
    {i \in 1..Len(wf.nodes) :
        /\ wf.nodes[i].params.capacity_per_hour # None
        /\ with_zero \/ RLt(Zero, wf.nodes[i].params.capacity_per_hour)
        /\ RLt(Zero, Get(visit_prob, wf.nodes[i].id, Zero))}

\* max_throughput_per_hour is at most the throughput and at most the cap
\* of each of the nodes
CappedBy(wf, r, nodes) ==
    /\ RLe(r.max_throughput_per_hour, r.throughput_per_hour)
    /\ \A i \in nodes :
          RLe(r.max_throughput_per_hour,
              NodeMax(wf.nodes[i].params, Get(r.visit_prob, wf.nodes[i].id, Zero)))

\* C24 (as the specification states it): in every run_deterministic result
\* max_throughput_per_hour is at most throughput_per_hour and at most
\* capacity x parallelization / visit probability of every node with a
\* bounded capacity, zero included, and a positive visit probability.
C24_CappedByEveryCapacity ==
    call = "run_deterministic" =>
        CappedBy(workflow, result, CappingNodes(workflow, result.visit_prob, TRUE))

\* C24 (amended): the same for every node with a capacity above zero; a
\* capacity of zero caps nothing, and max_throughput_per_hour is the
\* throughput or the cap of one of those nodes.
C24_CappedByPositiveCapacity ==
    call = "run_deterministic" =>
        Let(CappingNodes(workflow, result.visit_prob, FALSE), LAMBDA nodes :
            /\ CappedBy(workflow, result, nodes)
            /\ \/ result.max_throughput_per_hour = result.throughput_per_hour
               \/ \E i \in nodes :
                     result.max_throughput_per_hour
                         = NodeMax(workflow.nodes[i].params,
                                   Get(result.visit_prob, workflow.nodes[i].id, Zero)))

\* C24: a run through a node of capacity 50 with two workers that every
\* transaction visits: 100 an hour, below the throughput
C24_Witness ==
    /\ call = "run_deterministic"
    /\ workflow.nodes[2].params.capacity_per_hour = <<50, 1>>
    /\ workflow.nodes[2].params.parallelization_factor = 2
    /\ Get(result.visit_prob, 2, Zero) = One
    /\ result.max_throughput_per_hour = <<100, 1>>
    /\ RLt(result.max_throughput_per_hour, result.throughput_per_hour)

\* the (node index, parameter) pairs the analysis is to perturb: the worker
\* count of every node, and the other four parameters where they are not
\* zero
PerturbedPairs(wf) ==
    {x \in (1..Len(wf.nodes)) \X {"exec_time_mean", "cost_per_transaction", "error_rate",
                                  "queue_delay_mean", "parallelization_factor"} :
        x[2] = "parallelization_factor" \/ wf.nodes[x[1]].params[x[2]] # Zero}

\* the entries of a report for one node, one parameter and one metric
EntriesFor(entries, node_id, parameter, metric_name) ==
    {k \in 1..Len(entries) :
        /\ entries[k].node_id = node_id
        /\ entries[k].parameter = parameter
        /\ entries[k].metric_name = metric_name}

\* the entry holds the baseline value of the graph, that value perturbed,
\* and the metric of the baseline run
EntryAsPerturbed(e, wf, baseline, pct) ==
    Let(get_node(wf, e.node_id).params[e.parameter], LAMBDA baseline_value :
        /\ e.baseline_value = baseline_value
        /\ e.perturbed_value =
               IF e.parameter = "parallelization_factor" THEN baseline_value + 1
               ELSE RMul(baseline_value, RAdd(One, RDiv(pct, <<100, 1>>)))
        /\ e.baseline_metric = baseline[e.metric_name])

\* C25: run_sensitivity_analysis records exactly two entries, one per
\* metric, for every (node, parameter) pair whose parameter is
\* parallelization_factor or is not zero, and none for another pair; the
\* perturbed value is baseline + 1 for parallelization_factor and baseline x
\* (1 + perturbation_pct / 100) otherwise, and every entry is measured
\* against the one baseline run.
C25_TwoEntriesPerPerturbedPair ==
    call = "run_sensitivity_analysis" =>
        Let(run_deterministic(workflow, config), LAMBDA baseline :
            /\ Len(result.entries) = 2 * Cardinality(PerturbedPairs(workflow))
            /\ \A x \in PerturbedPairs(workflow) :
                  \A metric_name \in {"avg_total_time", "avg_total_cost"} :
                      Cardinality(EntriesFor(result.entries, workflow.nodes[x[1]].id,
                                             x[2], metric_name)) = 1
            /\ \A k \in 1..Len(result.entries) :
                  /\ <<NodeIndex(workflow, result.entries[k].node_id),
                        result.entries[k].parameter>> \in PerturbedPairs(workflow)
                  /\ EntryAsPerturbed(result.entries[k], workflow, baseline,
                                      result.perturbation_pct))

\* C25: a report on a graph with a node whose execution time is zero and a
\* node whose execution time is not: no entry for the one, two for the
\* other, and two for the worker count of each
C25_Witness ==
    /\ call = "run_sensitivity_analysis"
    /\ \E i, j \in 1..Len(workflow.nodes) :
          /\ workflow.nodes[i].params.exec_time_mean = Zero
          /\ workflow.nodes[j].params.exec_time_mean # Zero
          /\ \A metric_name \in {"avg_total_time", "avg_total_cost"} :
                /\ EntriesFor(result.entries, workflow.nodes[i].id, "exec_time_mean",
                              metric_name) = {}
                /\ EntriesFor(result.entries, workflow.nodes[j].id, "exec_time_mean",
                              metric_name) # {}
                /\ EntriesFor(result.entries, workflow.nodes[i].id,
                              "parallelization_factor", metric_name) # {}
    /\ \E k \in 1..Len(result.entries) :
          /\ result.entries[k].parameter = "parallelization_factor"
          /\ result.entries[k].baseline_value = 2
          /\ result.entries[k].perturbed_value = 3

\* the share of a parameter a reduction of r percent keeps, r taken within
\* 0..100
Retention(r) == RSub(One, RDiv(RMax(Zero, RMin(r, <<100, 1>>)), <<100, 1>>))

RECURSIVE Retained(_, _, _)
\* x times the retention of every intervention of the list, for one kind of
\* reduction
Retained(x, interventions, kind) ==
    IF interventions = <<>> THEN x
    ELSE Retained(RMul(x, Retention(Head(interventions)[kind])), Tail(interventions), kind)

RECURSIVE WorkersAdded(_)
WorkersAdded(interventions) ==
    IF interventions = <<>> THEN 0
    ELSE Head(interventions).parallelization_increase + WorkersAdded(Tail(interventions))

\* the parameters p of a node after the interventions that name it: every
\* reduction multiplies, the workers add up
Composed(p, q, interventions) ==
    /\ q.exec_time_mean = Retained(p.exec_time_mean, interventions, "time_reduction_pct")
    /\ q.cost_per_transaction
           = Retained(p.cost_per_transaction, interventions, "cost_reduction_pct")
    /\ q.error_rate = Retained(p.error_rate, interventions, "error_reduction_pct")
    /\ q.queue_delay_mean
           = Retained(p.queue_delay_mean, interventions, "queue_reduction_pct")
    /\ q.parallelization_factor = p.parallelization_factor + WorkersAdded(interventions)

\* the list in the order given by a permutation of its indices
Permuted(s, order) == [i \in 1..Len(s) |-> s[order[i]]]

\* C26: interventions on one node compose multiplicatively and whatever
\* their order: a parameter ends at original x (1 - r1/100) x (1 - r2/100)
\* for the reductions r1, r2 of its kind (each within 0..100), the workers
\* added sum, every permutation of the list gives the same parameters, and
\* a node no intervention names keeps its parameters.
C26_ComposeInAnyOrder ==
    call = "apply_interventions" =>
        /\ \A i \in 1..Len(prev.workflow.nodes) :
              Let(SelectSeq(arg, LAMBDA iv : iv.node_id = prev.workflow.nodes[i].id),
                  LAMBDA named :
                  /\ Composed(prev.workflow.nodes[i].params,
                              result.optimized_wf.nodes[i].params, named)
                  /\ named = <<>> =>
                        result.optimized_wf.nodes[i] = prev.workflow.nodes[i])
        /\ \A order \in IterationOrders(1..Len(arg)) :
              ApplyAll(<<prev.workflow>>, 1, Permuted(arg, order))[1] = result.optimized_wf

\* C26: reductions of 50 and of 20 percent of the execution time of a node,
\* one of which adds two workers: four tenths of the time are left, not
\* three tenths
C26_Witness ==
    /\ call = "apply_interventions"
    /\ Len(arg) = 2
    /\ {arg[1].time_reduction_pct, arg[2].time_reduction_pct} = {<<50, 1>>, <<20, 1>>}
    /\ arg[1].node_id = 2 /\ arg[2].node_id = 2
    /\ prev.workflow.nodes[2].params.exec_time_mean = <<2, 1>>
    /\ result.optimized_wf.nodes[2].params.exec_time_mean = <<4, 5>>
    /\ result.optimized_wf.nodes[2].params.parallelization_factor
           = prev.workflow.nodes[2].params.parallelization_factor + 2

\* the ranges NodeParams declares for its fields
InNodeParamsRanges(p) ==
    /\ RLe(Zero, p.exec_time_mean) /\ RLe(Zero, p.exec_time_variance)
    /\ RLe(Zero, p.cost_per_transaction)
    /\ RLe(Zero, p.queue_delay_mean) /\ RLe(Zero, p.queue_delay_variance)
    /\ RLe(Zero, p.error_rate) /\ RLe(p.error_rate, One)
    /\ RLe(Zero, p.drop_off_rate) /\ RLe(p.drop_off_rate, One)
    /\ p.parallelization_factor >= 1
    /\ p.max_retries >= 0
    /\ RLe(Zero, p.retry_delay)
    /\ p.capacity_per_hour # None => RLe(Zero, p.capacity_per_hour)

\* q is p improved: time, cost, error rate and queue delay no larger,
\* workers and capacity no smaller, no capacity where there was none
NoWorseParams(p, q) ==
    /\ RLe(q.exec_time_mean, p.exec_time_mean)
    /\ RLe(q.cost_per_transaction, p.cost_per_transaction)
    /\ RLe(q.error_rate, p.error_rate)
    /\ RLe(q.queue_delay_mean, p.queue_delay_mean)
    /\ q.parallelization_factor >= p.parallelization_factor
    /\ (p.capacity_per_hour = None) = (q.capacity_per_hour = None)
    /\ p.capacity_per_hour # None => RLe(p.capacity_per_hour, q.capacity_per_hour)

\* C27: after any list of interventions, reductions below 0 or above 100
\* included, every node of the optimized copy is within the ranges of
\* NodeParams, its time, cost, error rate and queue delay are no larger
\* than in the original, its workers and capacity no smaller, and a node
\* without a capacity still has none.
C27_ParamsStayInRange ==
    call = "apply_interventions" =>
        \A i \in 1..Len(result.optimized_wf.nodes) :
            /\ InNodeParamsRanges(result.optimized_wf.nodes[i].params)
            /\ NoWorseParams(prev.workflow.nodes[i].params,
                             result.optimized_wf.nodes[i].params)

\* C27: a cost reduction of 150 percent brought the cost of a node to zero,
\* a queue reduction of -10 percent left its queue delay as it was, and its
\* capacity grew
C27_Witness ==
    /\ call = "apply_interventions"
    /\ \E k \in 1..Len(arg) :
          /\ arg[k].node_id = 2
          /\ arg[k].cost_reduction_pct = <<150, 1>>
          /\ arg[k].queue_reduction_pct = <<-10, 1>>
    /\ RLt(Zero, prev.workflow.nodes[2].params.cost_per_transaction)
    /\ result.optimized_wf.nodes[2].params.cost_per_transaction = Zero
    /\ RLt(Zero, prev.workflow.nodes[2].params.queue_delay_mean)
    /\ result.optimized_wf.nodes[2].params.queue_delay_mean
           = prev.workflow.nodes[2].params.queue_delay_mean
    /\ RLt(prev.workflow.nodes[2].params.capacity_per_hour,
           result.optimized_wf.nodes[2].params.capacity_per_hour)

\* the NodeMetrics of the first start node
StartMetrics(wf, r) == r.node_metrics[NodeIndex(wf, get_start_nodes(wf)[1].id)]

\* every transaction is counted once, as completed or as dropped, and no
\* node has more errored or dropped than processed
CountedOnce(r) ==
    /\ r.completed_transactions + r.dropped_transactions = r.total_transactions
    /\ r.dropped_transactions
           = Cardinality({i \in 1..Len(r.transactions) : ~r.transactions[i].completed})
    /\ \A j \in 1..Len(r.node_metrics) :
          /\ r.node_metrics[j].transactions_errored <= r.node_metrics[j].transactions_processed
          /\ r.node_metrics[j].transactions_dropped <= r.node_metrics[j].transactions_processed

\* C28 (as the specification states it): in a run_monte_carlo result for a
\* graph with a start node, completed + dropped = total, the start node's
\* transactions_processed equals total_transactions, and no node has more
\* errored or dropped transactions than processed ones.
C28_StartProcessedEqualsTotal ==
    Simulated =>
        /\ CountedOnce(result)
        /\ StartMetrics(workflow, result).transactions_processed = result.total_transactions

\* C28 (amended): the start node's transactions_processed counts its
\* visits: it is at least total_transactions, and equal to it when no edge
\* leads into the start node.
C28_StartProcessedAtLeastTotal ==
    Simulated =>
        /\ CountedOnce(result)
        /\ StartMetrics(workflow, result).transactions_processed >= result.total_transactions
        /\ get_incoming_edges(workflow, get_start_nodes(workflow)[1].id) = <<>>
              => StartMetrics(workflow, result).transactions_processed
                     = result.total_transactions

\* C28: a run in which a transaction came back to the start node and was
\* cut off at the hop limit: it counts as dropped, and the start node has
\* processed more than the total
C28_Witness ==
    /\ Simulated
    /\ \E i \in 1..Len(result.transactions) : CutOff(workflow, result.transactions[i])
    /\ result.dropped_transactions >= 1
    /\ StartMetrics(workflow, result).transactions_processed > result.total_transactions

\* every decision node of wf with outgoing edges has probabilities that sum
\* to 1.0 within 1e-3
DecisionsSumToOne(wf) ==
    \A id \in BranchingDecisions(wf) :
        RLe(RAbs(RSub(OutgoingSum(wf, id), One)), Tolerance)

\* C29: in the graph returned by postprocess_raw_workflow, every decision
\* node with outgoing edges has outgoing probabilities summing to 1.0 within
\* 1e-3, also when the connectivity repair that runs after the normalization
\* removes an edge from, or adds a probability-1.0 edge to, a decision node.
C29_PostprocessSumsToOne ==
    (call = "postprocess_raw_workflow" /\ result # ValueError) =>
        DecisionsSumToOne(result)

\* C29: a returned graph in which the repair took the edge to the end node
\* from a decision and gave it an edge of probability 1.0 to an orphan, next
\* to the edge of probability 1/2 it kept
C29_RepairUnbalancesDecision ==
    /\ call = "postprocess_raw_workflow"
    /\ result # ValueError
    /\ \E id \in BranchingDecisions(result) :
          /\ OutgoingSum(result, id) = <<3, 2>>
          /\ \E i \in 1..Len(heap[1].edges) :
                /\ heap[1].edges[i].source = id
                /\ \A j \in 1..Len(result.edges) :
                      ~(/\ result.edges[j].source = id
                        /\ result.edges[j].target = heap[1].edges[i].target)

\* the node ids are unique and every edge joins two nodes of the graph
WellFormedGraph(wf) ==
    /\ \A i, j \in 1..Len(wf.nodes) : wf.nodes[i].id = wf.nodes[j].id => i = j
    /\ \A i \in 1..Len(wf.edges) :
          wf.edges[i].source \in node_ids(wf) /\ wf.edges[i].target \in node_ids(wf)

\* SimulationResults.get_node_metrics(node_id) is not None
HasNodeMetrics(r, node_id) ==
    \E j \in 1..Len(r.node_metrics) : r.node_metrics[j].node_id = node_id

\* node_metrics holds one NodeMetrics per node of the graph
OneMetricsPerNode(wf, r) ==
    /\ Len(r.node_metrics) = Len(wf.nodes)
    /\ \A id \in node_ids(wf) :
          /\ HasNodeMetrics(r, id)
          /\ Cardinality({j \in 1..Len(r.node_metrics) : r.node_metrics[j].node_id = id}) = 1

\* C30 (as the specification states it): for every graph with unique node
\* ids whose edges reference only existing nodes, the node_metrics of
\* run_deterministic and of run_monte_carlo hold exactly one NodeMetrics per
\* node, unreached nodes included.
C30_OneMetricsPerNodeAlways ==
    (call \in {"run_deterministic", "run_monte_carlo"} /\ WellFormedGraph(workflow)) =>
        OneMetricsPerNode(workflow, result)

\* C30 (amended): the same for run_deterministic on every such graph and
\* for run_monte_carlo on every such graph that has a start node; without
\* a start node run_monte_carlo returns no NodeMetrics at all.
C30_OneMetricsPerNodeGivenStart ==
    /\ (call = "run_deterministic" /\ WellFormedGraph(workflow)) =>
           OneMetricsPerNode(workflow, result)
    /\ (call = "run_monte_carlo" /\ WellFormedGraph(workflow)) =>
           IF get_start_nodes(workflow) # <<>> THEN OneMetricsPerNode(workflow, result)
           ELSE result.node_metrics = <<>>

\* C30: a Monte Carlo run that left a node unreached, which has its
\* NodeMetrics all the same
C30_Witness ==
    /\ Simulated
    /\ WellFormedGraph(workflow)
    /\ \E j \in 1..Len(result.node_metrics) :
          /\ result.node_metrics[j].transactions_processed = 0
          /\ result.node_metrics[j].node_id \in node_ids(workflow)
    /\ \E j \in 1..Len(result.node_metrics) :
          result.node_metrics[j].transactions_processed > 0

=============================================================================
